---- MODULE Spec2Model ----
(***************************************************************************)
(* A model of the galo router (src/mod.ts): the path tokenizer, the        *)
(* pattern matcher, the route table with its registration methods, the     *)
(* dispatcher (#runRouter), the error boundary and the response coercion   *)
(* (#runHandler), and nested routers built with next().                    *)
(*                                                                         *)
(* A JavaScript string is a sequence of characters; a character is a       *)
(* one-letter TLA+ string, except "%2F", which stands for the three        *)
(* characters of the percent-escape of "/".                                *)
(***************************************************************************)
EXTENDS Integers, Sequences, FiniteSets, TLC

VARIABLES
  routers,   \* the Router objects that outlive a request: id -> fields
  last,      \* the last call of fetch: request, outcome, log, routers made
  str,       \* tokenizer runs: the string as written now
  orig,      \* tokenizer runs: the string as first written
  tok,       \* tokenizer runs: toParts(str)
  mpat,      \* matcher runs: the pattern (a segment sequence)
  mparts,    \* matcher runs: the request's segment sequence
  mres,      \* matcher runs: the result of matches(mpat, mparts)
  stream     \* the stream made of a generator, its loop and its reader

vars == <<routers, last, str, orig, tok, mpat, mparts, mres, stream>>

-----------------------------------------------------------------------------
(* Bounds of the model.                                                    *)

\* most entries in a route table
MaxRoutes == 2
\* most entries in a static list
MaxStatic == 2
\* longest string given to the tokenizer
MaxLen == 4
\* longest pattern given to the matcher
MaxPattern == 3
\* longest request segment sequence given to the matcher
MaxParts == 3
\* most chunks a generator yields
MaxChunks == 3

-----------------------------------------------------------------------------
(* Strings.                                                                *)

Char == {"/", ":", "a", "%", "%2F"}

\* String.prototype.split("/")
RECURSIVE split(_)
split(s) ==
  IF \A i \in 1..Len(s) : s[i] # "/" THEN <<s>>
  ELSE LET i == CHOOSE k \in 1..Len(s) :
                  s[k] = "/" /\ \A j \in 1..(k - 1) : s[j] # "/"
       IN <<SubSeq(s, 1, i - 1)>> \o split(SubSeq(s, i + 1, Len(s)))

\* decodeURIComponent throws a URIError on a "%" that starts no escape of a
\* UTF-8 sequence; with the letters of Char every lone "%" is such a one.
Malformed(part) == \E i \in 1..Len(part) : part[i] = "%"

\* decodeURIComponent on a well-formed part
decodeURIComponent(part) ==
  [i \in 1..Len(part) |-> IF part[i] = "%2F" THEN "/" ELSE part[i]]

toPartsNoFilter(pattern) ==
  LET raw == split(pattern)
  IN IF \E i \in 1..Len(raw) : Malformed(raw[i])
     THEN [ok |-> FALSE, parts |-> <<>>]
     ELSE [ok |-> TRUE,
           parts |-> [i \in 1..Len(raw) |-> decodeURIComponent(raw[i])]]

\* toParts: ok = FALSE when decodeURIComponent throws
toParts(pattern) ==
  LET raw == SelectSeq(split(pattern), LAMBDA part : Len(part) > 0)
  IN IF \E i \in 1..Len(raw) : Malformed(raw[i])
     THEN [ok |-> FALSE, parts |-> <<>>]
     ELSE [ok |-> TRUE,
           parts |-> [i \in 1..Len(raw) |-> decodeURIComponent(raw[i])]]

-----------------------------------------------------------------------------
(* Objects with string keys (parameter bags). A key is a string; a value   *)
(* is a tagged list of strings, so that all values compare.                *)

EmptyBag == [k \in {} |-> [t |-> "undefined", v |-> <<>>]]

\* { ...a, ...b }
Spread(a, b) ==
  [k \in (DOMAIN a) \cup (DOMAIN b) |-> IF k \in DOMAIN b THEN b[k] ELSE a[k]]

Prop(k, val) == [x \in {k} |-> val]

StringVal(s) == [t |-> "string", v |-> <<s>>]
ArrayVal(parts) == [t |-> "array", v |-> parts]

KeyRest == <<"_">>
KeyRequest == <<"r", "e", "q", "u", "e", "s", "t">>
KeyNext == <<"n", "e", "x", "t">>
KeyError == <<"e", "r", "r", "o", "r">>
KeySocket == <<"s", "o", "c", "k", "e", "t">>
KeyResponse == <<"r", "e", "s", "p", "o", "n", "s", "e">>
\* assigning a string to __proto__ of a plain object sets no property
KeyProto == <<"_", "_", "p", "r", "o", "t", "o", "_", "_">>

-----------------------------------------------------------------------------
(* The pattern matcher.                                                    *)

Wildcard == <<"*">>

startsWithColon(part) == Len(part) > 0 /\ part[1] = ":"

\* the for loop of matches, from index i on
RECURSIVE matchLoop(_, _, _, _)
matchLoop(pattern, parts, i, captures) ==
  IF i > Len(pattern) THEN [ok |-> TRUE, params |-> captures]
  ELSE LET part == pattern[i]
           value == parts[i]
       IN IF startsWithColon(part)
          THEN matchLoop(pattern, parts, i + 1,
                         IF Tail(part) = KeyProto THEN captures
                         ELSE Spread(captures, Prop(Tail(part), StringVal(value))))
          ELSE IF part # value
               THEN [ok |-> FALSE, params |-> EmptyBag]
               ELSE matchLoop(pattern, parts, i + 1, captures)

matchesFirstCapture(pattern0, parts) ==
  LET hasWildcard == Len(pattern0) > 0 /\ pattern0[Len(pattern0)] = Wildcard
      pattern == IF hasWildcard THEN SubSeq(pattern0, 1, Len(pattern0) - 1)
                 ELSE pattern0
      NoMatch == [ok |-> FALSE, params |-> EmptyBag]
  IN IF hasWildcard /\ Len(pattern) > Len(parts) THEN NoMatch
     ELSE IF ~hasWildcard /\ Len(pattern) # Len(parts) THEN NoMatch
     ELSE LET walk == matchLoop(pattern, parts, 1, EmptyBag)
              first == IF Len(pattern) > 0 /\ startsWithColon(pattern[1])
                       THEN Prop(Tail(pattern[1]), StringVal(parts[1]))
                       ELSE EmptyBag
          IN IF ~walk.ok THEN NoMatch
             ELSE [ok |-> TRUE,
                   params |-> Spread(Spread(walk.params, first),
                       Prop(KeyRest,
                            ArrayVal(SubSeq(parts, Len(pattern) + 1, Len(parts)))))]

\* matches: ok = FALSE for the undefined the code returns
matches(pattern0, parts) ==
  LET hasWildcard == Len(pattern0) > 0 /\ pattern0[Len(pattern0)] = Wildcard
      pattern == IF hasWildcard THEN SubSeq(pattern0, 1, Len(pattern0) - 1)
                 ELSE pattern0
      NoMatch == [ok |-> FALSE, params |-> EmptyBag]
  IN IF hasWildcard /\ Len(pattern) > Len(parts) THEN NoMatch
     ELSE IF ~hasWildcard /\ Len(pattern) # Len(parts) THEN NoMatch
     ELSE LET walk == matchLoop(pattern, parts, 1, EmptyBag)
          IN IF ~walk.ok THEN NoMatch
             ELSE [ok |-> TRUE,
                   params |-> Spread(walk.params,
                       Prop(KeyRest,
                            ArrayVal(SubSeq(parts, Len(pattern) + 1, Len(parts)))))]

-----------------------------------------------------------------------------
(* Requests, responses, errors.                                            *)

\* request.method, the pathname of request.url, the upgrade header ("" when
\* the request has none)
Request(method, path, upgrade) ==
  [method |-> method, path |-> path, upgrade |-> upgrade]

\* the request as a value of a parameter bag, and back
RequestVal(req) ==
  [t |-> "request", v |-> <<<<req.method>>, req.path, <<req.upgrade>>>>]
RequestOf(val) == Request(val.v[1][1], val.v[2], val.v[3][1])

toLowerCase(s) == IF s = "WebSocket" THEN "websocket" ELSE s

isWebsocketAnyGet(request) == request.method = "GET"

isWebsocket(request) ==
  request.method = "GET" /\ toLowerCase(request.upgrade) = "websocket"

\* a Response: status, body (a list of text pieces), headers (name, value)
Response(status, body, headers) ==
  [status |-> status, body |-> body, headers |-> headers]
NoResponse == Response(0, <<>>, {})

\* a thrown value: an Error object (isError) with name and message (a list
\* of text pieces), or another value, whose String() is in message
Thrown(isError, name, message) ==
  [isError |-> isError, name |-> name, message |-> message]
NoError == Thrown(FALSE, "", <<>>)

toErrorIdentity(err) == err

toError(err) ==
  IF err.isError THEN err ELSE Thrown(TRUE, "Error", err.message)

\* Error.prototype.toString()
errorToString(error) ==
  IF error.message = <<>> THEN <<error.name>>
  ELSE <<error.name, ": ">> \o error.message

ErrorVal(error) ==
  [t |-> IF error.isError THEN "Error" ELSE "thrown",
   v |-> <<<<error.name>>, error.message>>]

\* the outcome of an asynchronous call: a response, or a failure
\* (k = "value": it resolved to something that is no Response, text)
Resolved(resp) ==
  [k |-> "response", resp |-> resp, err |-> NoError, text |-> <<>>]
ResolvedValue(text) ==
  [k |-> "value", resp |-> NoResponse, err |-> NoError, text |-> text]
Rejected(err) ==
  [k |-> "throw", resp |-> NoResponse, err |-> err, text |-> <<>>]
\* the call threw before it gave a promise back
Raised(err) ==
  [k |-> "raise", resp |-> NoResponse, err |-> err, text |-> <<>>]

URIError == Thrown(TRUE, "URIError", <<"URI malformed">>)

-----------------------------------------------------------------------------
(* Routers and their registration methods.                                 *)

NoHandler == [kind |-> "none", id |-> ""]
Fn(id) == [kind |-> "fn", id |-> id]
RouterHandler(id) == [kind |-> "router", id |-> id]

\* route[3]: the pattern as registered, as cached, or absent
PatternString(s) == [t |-> "string", s |-> s, p |-> <<>>]
PatternParts(p) == [t |-> "parts", s |-> <<>>, p |-> p]
PatternUndefined == [t |-> "undefined", s |-> <<>>, p |-> <<>>]

\* method "" is the undefined of path()
Route(handler, protocol, method, pattern) ==
  [handler |-> handler, protocol |-> protocol, method |-> method,
   pattern |-> pattern]

\* new Router(params)
Router(params) ==
  [routes |-> <<>>, staticRoutes |-> <<>>, params |-> params,
   defaultHandler |-> NoHandler, errorHandler |-> NoHandler]

\* an argument of a registration call: a string, a handler, or nothing
ArgString(s) == [t |-> "string", s |-> s, h |-> NoHandler]
ArgHandler(h) == [t |-> "handler", s |-> <<>>, h |-> h]
ArgNone == [t |-> "undefined", s |-> <<>>, h |-> NoHandler]

addFirst(r, handler, protocol, method, pattern) ==
  [r EXCEPT !.routes = <<Route(handler, protocol, method, pattern)>> \o @]

\* #add
add(r, handler, protocol, method, pattern) ==
  [r EXCEPT !.routes = Append(@, Route(handler, protocol, method, pattern))]

\* #addMethod: ok = FALSE when it throws
addMethod(r, method, protocol, patternOrHandler, handler) ==
  IF patternOrHandler.t = "handler"
  THEN [ok |-> TRUE,
        router |-> add(r, patternOrHandler.h, protocol, method, PatternUndefined)]
  ELSE IF handler.t = "handler"
  THEN [ok |-> TRUE,
        router |-> add(r, handler.h, protocol, method,
                       IF patternOrHandler.t = "string"
                       THEN PatternString(patternOrHandler.s)
                       ELSE PatternUndefined)]
  ELSE [ok |-> FALSE, router |-> r]

get(r, patternOrHandler, handler) ==
  addMethod(r, "GET", "HTTP", patternOrHandler, handler)
post(r, patternOrHandler, handler) ==
  addMethod(r, "POST", "HTTP", patternOrHandler, handler)
put(r, patternOrHandler, handler) ==
  addMethod(r, "PUT", "HTTP", patternOrHandler, handler)
delete(r, patternOrHandler, handler) ==
  addMethod(r, "DELETE", "HTTP", patternOrHandler, handler)
socket(r, patternOrHandler, handler) ==
  addMethod(r, "GET", "WS", patternOrHandler, handler)
sse(r, patternOrHandler, handler) ==
  addMethod(r, "GET", "SSE", patternOrHandler, handler)

path(r, pattern, handler) == add(r, handler, "HTTP", "", PatternString(pattern))

default(r, handler) == [r EXCEPT !.defaultHandler = handler]

catch(r, handler) == [r EXCEPT !.errorHandler = handler]

\* staticFiles: the callback is kept as the directory it serves;
\* ok = FALSE when toParts throws
staticFiles(r, pattern, dir) ==
  LET tp == toParts(pattern)
  IN IF tp.ok
     THEN [ok |-> TRUE,
           router |-> [r EXCEPT !.staticRoutes =
                          Append(@, [dir |-> dir, pattern |-> tp.parts])]]
     ELSE [ok |-> FALSE, router |-> r]

\* next, the closure made by #runRouter over this and request
nextWithoutParams(thisParams, request, params) ==
  Router(Spread(thisParams, Prop(KeyRequest, RequestVal(request))))

nextThisWins(thisParams, request, params) ==
  Router(Spread(Spread(params, thisParams), Prop(KeyRequest, RequestVal(request))))

next(thisParams, request, params) ==
  Router(Spread(Spread(thisParams, params), Prop(KeyRequest, RequestVal(request))))

-----------------------------------------------------------------------------
(* What a handler function gives back.                                     *)

\* k: "throw", or the kind of value returned: "Response", "string",
\* "Router" (with the id the new router is known by), "undefined", "null",
\* the class of a body ("Uint8Array", "Blob", ...), "File", "generator",
\* "object", or the typeof of another value (text: its String())
Return(k, resp, text, id, router, err) ==
  [k |-> k, resp |-> resp, text |-> text, id |-> id, router |-> router,
   err |-> err]

ReturnResponse(resp) == Return("Response", resp, <<>>, "", Router(EmptyBag), NoError)
ReturnString(text) == Return("string", NoResponse, text, "", Router(EmptyBag), NoError)
ReturnRouter(id, router) == Return("Router", NoResponse, <<>>, id, router, NoError)
ReturnValue(k, text) == Return(k, NoResponse, text, "", Router(EmptyBag), NoError)
Throw(err) == Return("throw", NoResponse, <<>>, "", Router(EmptyBag), err)

\* The handler functions of the runs. The plain ones answer with their own
\* name, as the handlers of test.ts do ("Hello, GET!"); the others are the
\* handlers of the README and of test.ts: one that throws, one that returns
\* next()... , the error handler that reports error.message.
PlainHandlers ==
  {"h1", "h2", "hGet", "hPost", "hPut", "hDelete", "hPath", "hSocket", "hSse",
   "hDefault"}

PathB == <<"/", "b">>
KeyX == <<"x">>
KeyY == <<"y">>

\* { x: "1", y: "1", _: "1", request: "1", next: "1" }
AmbientAll ==
  [k \in {KeyX, KeyY, KeyRest, KeyRequest, KeyNext} |-> StringVal(<<"1">>)]

\* the arguments of next in the handlers that return what next returns
ExtraOf(id) ==
  CASE id = "hNextBare" ->
         [k \in {KeyX, KeyRequest} |-> StringVal(<<"1">>)]
    [] id = "hNextTwice" -> [k \in {KeyX, KeyY} |-> StringVal(<<"1">>)]
    [] OTHER -> Prop(KeyX, StringVal(<<"2">>))

\* "/:x", "/:_/:next" and "/:request/:y/*"
PatX == <<"/", ":", "x">>
PatRestNext == <<"/", ":", "_", "/", ":">> \o KeyNext
PatRequestYStar == <<"/", ":">> \o KeyRequest \o <<"/", ":", "y", "/", "*">>

Behave(id, params, thisParams, request) ==
  CASE id \in PlainHandlers -> ReturnResponse(Response(200, <<id>>, {}))
    [] id = "hString" -> ReturnString(<<"hString">>)
    [] id = "hThrow" -> Throw(Thrown(TRUE, "Error", <<"boom">>))
    [] id = "hThrowStr" -> Throw(Thrown(FALSE, "", <<"oops">>))
    [] id = "hNest" ->
         ReturnRouter("N1", path(next(thisParams, request, EmptyBag),
                                 PathB, Fn("h1")))
    [] id = "hNestX" ->
         ReturnRouter("N1",
           path(next(thisParams, request,
                     IF KeyX \in DOMAIN params THEN Prop(KeyX, params[KeyX])
                     ELSE EmptyBag),
                PathB, Fn("h1")))
    \* ({ next, x }) => next({ x }).path("/*", M1), M1 a router of its own
    [] id = "hNestMountX" ->
         ReturnRouter("N1",
           path(next(thisParams, request,
                     IF KeyX \in DOMAIN params THEN Prop(KeyX, params[KeyX])
                     ELSE EmptyBag),
                <<"/", "*">>, RouterHandler("M1")))
    \* ({ next }) => next().default(() => 7)
    [] id = "hNestNumber" ->
         ReturnRouter("N1", default(next(thisParams, request, EmptyBag),
                                    Fn("hNumber")))
    \* ({ next }) => next({ x: "1", y: "1", _: "1", request: "1", next: "1" })
    \*   .path("/:x", h1).path("/:_/:next", h1).path("/:request/:y/*", h1)
    [] id = "hNestAmbient" ->
         ReturnRouter("N1",
           path(path(path(next(thisParams, request, AmbientAll),
                          PatX, Fn("h1")),
                     PatRestNext, Fn("h1")),
                PatRequestYStar, Fn("h1")))
    \* ({ next }) => next({ x: "1", request: "1" })
    [] id = "hNextBare" ->
         ReturnRouter("N1", next(thisParams, request, ExtraOf(id)))
    \* ({ next }) => next({ x: "1", y: "1" }).path("/*", hNextInner)
    [] id = "hNextTwice" ->
         ReturnRouter("N1", path(next(thisParams, request, ExtraOf(id)),
                                 <<"/", "*">>, Fn("hNextInner")))
    \* ({ next }) => next({ x: "2" })
    [] id = "hNextInner" ->
         ReturnRouter("N2", next(thisParams, request, ExtraOf(id)))
    [] id = "hNestDefault" ->
         ReturnRouter("N1", default(next(thisParams, request, EmptyBag), Fn("h2")))
    [] id = "hNestThrow" ->
         ReturnRouter("N1", path(next(thisParams, request, EmptyBag),
                                 PathB, Fn("hThrow")))
    \* ({ next }) => next().path("/b", hThrow).catch(hCatch)
    [] id = "hNestThrowCatch" ->
         ReturnRouter("N1", catch(path(next(thisParams, request, EmptyBag),
                                       PathB, Fn("hThrow")),
                                  Fn("hCatch")))
    [] id = "hCatch" ->
         \* ({ error }) => new Response(`Server error: ${error}`, { status: 500 })
         ReturnResponse(Response(500,
           IF KeyError \in DOMAIN params
           THEN LET e == params[KeyError]
                IN <<"Server error: ">> \o
                   (IF e.t = "Error"
                    THEN errorToString(Thrown(TRUE, e.v[1][1], e.v[2]))
                    ELSE e.v[2])
           ELSE <<"Server error: ", "undefined">>, {}))
    [] id = "hCatchThrow" -> Throw(Thrown(TRUE, "Error", <<"again">>))
    [] id = "hNumber" -> ReturnValue("number", <<"7">>)
    [] id = "hZero" -> ReturnValue("number", <<"0">>)
    [] id = "hFalse" -> ReturnValue("boolean", <<"false">>)
    [] id = "hTrue" -> ReturnValue("boolean", <<"true">>)
    [] id = "hSymbol" -> ReturnValue("symbol", <<"Symbol()">>)
    [] id = "hFunction" -> ReturnValue("function", <<"() => {}">>)
    [] id = "hNull" -> ReturnValue("null", <<>>)
    [] id = "hObject" -> ReturnValue("object", <<"{\"a\":1}">>)
    [] id = "hArray" -> ReturnValue("array", <<"[1]">>)
    [] id = "hBytes" -> ReturnValue("Uint8Array", <<"bytes">>)
    [] id = "hBlob" -> ReturnValue("Blob", <<"blob", "text/plain", "3">>)
    \* new File(["foo"], "foo.txt", { type: "text/plain" })
    [] id = "hFile" -> ReturnValue("File", <<"foo.txt", "text/plain", "3">>)
    [] id = "hFileNoType" -> ReturnValue("File", <<"foo.bin", "", "3">>)
    [] id = "hVoid" -> ReturnValue("undefined", <<>>)
    [] OTHER -> ReturnValue("undefined", <<>>)

-----------------------------------------------------------------------------
(* The files under the directory given to staticFiles, as Deno.stat and    *)
(* serveFile see them.                                                     *)

joinFirst(parts, sep) == IF Len(parts) = 0 THEN <<>> ELSE parts[1]

RECURSIVE join(_, _)
\* Array.prototype.join
join(parts, sep) ==
  IF Len(parts) = 0 THEN <<>>
  ELSE IF Len(parts) = 1 THEN parts[1]
  ELSE parts[1] \o <<sep>> \o join(Tail(parts), sep)

Files ==
  {<<"public", "/", "b">>, <<"assets", "/", "a", "/", "b">>,
   <<"assets", "/", "b", ".html">>}
Directories == {<<"public", "/", "a">>, <<"assets", "/", "a">>}

\* extname(filePath) is not empty
hasExtname(filePath) ==
  Len(filePath) > 0 /\ filePath[Len(filePath)] \in {".html", "index.html"}

\* the callback staticFiles registers; serveFile answers with the file
staticCallback(dir, request, file) ==
  LET filePath == <<dir, "/">> \o
        (IF Len(file) > 0 /\ file[Len(file)] = "/"
         THEN Append(file, "index.html") ELSE file)
  IN IF filePath \in Directories
     THEN Response(301, <<>>, {<<"location">> \o filePath \o <<"/">>})
     ELSE IF filePath \in Files
     THEN Response(200, <<"file ">> \o filePath, {})
     ELSE IF ~hasExtname(filePath) /\ Append(filePath, ".html") \in Files
     THEN Response(200, <<"file ">> \o Append(filePath, ".html"), {})
     ELSE Response(404, <<"Not found">>, {})

-----------------------------------------------------------------------------
(* The log of one call of fetch.                                           *)

\* a router is dispatched with request and parts
Dispatched(rid, request, parts) ==
  [ev |-> "dispatch", router |-> rid, role |-> "", idx |-> 0,
   handler |-> NoHandler, params |-> EmptyBag, parts |-> parts,
   req |-> request]

\* a handler is called: role "route" (idx: its place in the route table),
\* "default", "error", or "static" (parts: the file asked for)
Invoked(rid, role, idx, handler, params, parts, request) ==
  [ev |-> "invoke", router |-> rid, role |-> role, idx |-> idx,
   handler |-> handler, params |-> params, parts |-> parts, req |-> request]

\* Deno.upgradeWebSocket is called
Upgraded(rid, idx, request) ==
  [ev |-> "upgrade", router |-> rid, role |-> "route", idx |-> idx,
   handler |-> NoHandler, params |-> EmptyBag, parts |-> <<>>, req |-> request]

-----------------------------------------------------------------------------
(* The dispatcher. Each operator gives the routers as the call leaves      *)
(* them (st), the outcome (out) and the log.                               *)

Done(st, out, log) == [st |-> st, out |-> out, log |-> log]

\* a router made while a request is handled joins the routers under its id
Put(st, id, router) ==
  [x \in (DOMAIN st) \cup {id} |-> IF x = id THEN router ELSE st[x]]

NextVal(rid) == [t |-> "function", v |-> <<<<"next", rid>>>>]
SocketVal == [t |-> "WebSocket", v |-> <<>>]
UpgradeResponse == Response(101, <<>>, {<<"upgrade", "websocket">>})
UpgradeResponseVal == [t |-> "Response", v |-> <<<<"101">>>>]

\* the for loop over this.staticRoutes, from entry i on
staticAtReversed(this, i) ==
  this.staticRoutes[Len(this.staticRoutes) + 1 - i]

\* the i-th entry that for (... of this.staticRoutes) visits
staticAt(this, i) == this.staticRoutes[i]

RECURSIVE staticLoop(_, _, _, _, _, _)
staticLoop(this, rid, request, parts, i, log) ==
  IF i > Len(this.staticRoutes)
  THEN [served |-> FALSE, resp |-> NoResponse, log |-> log]
  ELSE LET entry == staticAt(this, i)
           params == matches(entry.pattern, parts)
       IN IF request.method # "GET" /\ request.method # "HEAD"
          THEN staticLoop(this, rid, request, parts, i + 1, log)
          ELSE IF ~params.ok \/ Len(params.params[KeyRest].v) = 0
          THEN staticLoop(this, rid, request, parts, i + 1, log)
          ELSE LET file == join(params.params[KeyRest].v, "/")
                   response == staticCallback(entry.dir, request, file)
                   log1 == Append(log, Invoked(rid, "static", i, NoHandler,
                                               EmptyBag, <<file>>, request))
               IN IF response.status # 404
                  THEN [served |-> TRUE, resp |-> response, log |-> log1]
                  ELSE staticLoop(this, rid, request, parts, i + 1, log1)

\* params.response || new Response()
responseOrEmpty(params) ==
  IF KeyResponse \in DOMAIN params
  THEN IF params[KeyResponse].t = "Response" THEN Resolved(UpgradeResponse)
       ELSE ResolvedValue(params[KeyResponse].v[1])
  ELSE Resolved(Response(200, <<>>, {}))

\* values for which !handleReturn holds (the empty string is met before)
Falsy(ret) ==
  \/ ret.k = "null"
  \/ ret.k \in {"number", "boolean", "bigint"} /\ ret.text \in {<<"0">>, <<"false">>, <<"NaN">>}

\* handleReturn instanceof File; a File is written (name, type, size)
instanceofFile(ret) == ret.k = "File"

\* handleReturn instanceof Blob: File is a subclass of Blob
instanceofBlob(ret) == ret.k = "Blob" \/ instanceofFile(ret)

\* the instanceof tests of the body branch
instanceofBody(ret) ==
  \/ ret.k \in {"Uint8Array", "ReadableStream", "ArrayBuffer",
                "URLSearchParams", "FormData", "DataView"}
  \/ instanceofBlob(ret)

\* new Response(handleReturn ?? undefined): the Content-Type is the one the
\* body brings (a Blob's type, text/plain for a value turned into a string)
bodyResponse(ret) ==
  CASE ret.k = "null" -> Response(200, <<>>, {})
    [] Falsy(ret) ->
         Response(200, ret.text, {<<"Content-Type", "text/plain;charset=UTF-8">>})
    [] instanceofBlob(ret) ->
         Response(200, <<"content of ", ret.text[1]>>,
           IF ret.text[2] = "" THEN {} ELSE {<<"Content-Type", ret.text[2]>>})
    [] ret.k = "URLSearchParams" ->
         Response(200, ret.text,
           {<<"Content-Type", "application/x-www-form-urlencoded;charset=UTF-8">>})
    [] ret.k = "FormData" ->
         Response(200, ret.text, {<<"Content-Type", "multipart/form-data">>})
    [] OTHER -> Response(200, ret.text, {})

\* new Response(handleReturn, { status: 200, headers: text/html })
htmlResponse(text) ==
  Response(200, text, {<<"Content-Type", "text/html; charset=utf-8">>})

jsonResponseUntyped(text) == Response(200, <<"JSON of ">> \o text, {})

\* Response.json(handleReturn)
jsonResponse(text) ==
  Response(200, <<"JSON of ">> \o text, {<<"Content-Type", "application/json">>})

\* the entry the for loop over this.routes visits in its i-th round
routeAtReversed(this, i) == this.routes[Len(this.routes) + 1 - i]

routeAt(this, i) == this.routes[i]

\* if (method && reqMethod !== method) continue
methodSkipsNever(method, reqMethod) == FALSE

methodSkips(method, reqMethod) == method # "" /\ reqMethod # method

\* the parameter bag of the default handler
defaultParamsNoRest(thisParams, parts, request, rid) ==
  Spread(Spread(thisParams, Prop(KeyRest, ArrayVal(<<>>))),
         Spread(Prop(KeyRequest, RequestVal(request)), Prop(KeyNext, NextVal(rid))))

defaultParams(thisParams, parts, request, rid) ==
  Spread(Spread(thisParams, Prop(KeyRest, ArrayVal(parts))),
         Spread(Prop(KeyRequest, RequestVal(request)), Prop(KeyNext, NextVal(rid))))

routeParamsAmbientLast(thisParams, params, request, rid) ==
  Spread(Spread(params, thisParams),
         Spread(Prop(KeyRequest, RequestVal(request)), Prop(KeyNext, NextVal(rid))))

\* the parameter bag of a matched route
routeParams(thisParams, params, request, rid) ==
  Spread(Spread(thisParams, params),
         Spread(Prop(KeyRequest, RequestVal(request)), Prop(KeyNext, NextVal(rid))))

\* what a nested or mounted router is dispatched with: params._
childPartsFull(params) == toParts(RequestOf(params[KeyRequest]).path).parts

childParts(params) == params[KeyRest].v

\* the parameter bag of the error handler
errorParamsOnlyError(params, error) == Prop(KeyError, ErrorVal(error))

errorParams(params, error) == Spread(params, Prop(KeyError, ErrorVal(error)))

\* the answers of the error boundary: the error handler failed with err; no
\* error handler is registered for error
errorHandlerFailedRethrow(err) == Rejected(err)

errorHandlerFailed(err) ==
  Resolved(Response(500, errorToString(toError(err)), {}))

unhandledMessageOnly(error) == Resolved(Response(500, error.message, {}))

unhandledRethrow(error) == Rejected(error)

unhandled(error) == Resolved(Response(500, errorToString(error), {}))

RECURSIVE runRouter(_, _, _, _, _)
RECURSIVE routeLoop(_, _, _, _, _, _)
RECURSIVE runHandler(_, _, _, _, _, _, _, _)
RECURSIVE coerce(_, _, _, _, _, _)

matchedUnlessNotFound(result, rid, request, parts, i) ==
  IF result.out = Resolved(Response(404, <<"Not Found">>, {}))
  THEN routeLoop(result.st, rid, request, parts, i + 1, result.log)
  ELSE result

\* return await this.#runHandler(...) in the round i of the loop over
\* this.routes: what the handler of the matched entry gives is the result
\* of #runRouter, and the loop is over
matched(result, rid, request, parts, i) == result

\* #runHandler after the try statement: handleReturn to a Response
coerce(st, rid, handleReturn, params, protocol, log) ==
  LET k == handleReturn.k
  IN IF k = "string"
     THEN Done(st, Resolved(htmlResponse(handleReturn.text)), log)
     ELSE IF k = "Response"
     THEN Done(st, Resolved(handleReturn.resp), log)
     ELSE IF k = "Router"
     THEN runRouter(Put(st, handleReturn.id, handleReturn.router),
                    handleReturn.id, RequestOf(params[KeyRequest]),
                    childParts(params), log)
     ELSE IF k = "undefined"
     THEN Done(st, responseOrEmpty(params), log)
     ELSE IF Falsy(handleReturn) \/ instanceofBody(handleReturn)
     THEN Done(st, Resolved(bodyResponse(handleReturn)), log)
     ELSE IF instanceofFile(handleReturn)
     THEN Done(st, Resolved(Response(200, <<"content of ", handleReturn.text[1]>>,
                 {<<"Content-Type", IF handleReturn.text[2] = ""
                                    THEN "application/octet-stream"
                                    ELSE handleReturn.text[2]>>,
                  <<"Content-Length", handleReturn.text[3]>>,
                  <<"Content-Disposition", "attachment; filename=",
                    handleReturn.text[1]>>})), log)
     ELSE IF k = "generator"
     THEN IF protocol = "SSE"
          THEN Done(st, Resolved(Response(200, <<"event stream">>,
                      {<<"Content-Type", "text/event-stream">>,
                       <<"Cache-Control", "no-cache">>})), log)
          ELSE Done(st, Resolved(Response(200, <<"byte stream">>, {})), log)
     ELSE IF k \in {"object", "array"}
     THEN Done(st, Resolved(jsonResponse(handleReturn.text)), log)
     ELSE Done(st, Rejected(Thrown(TRUE, "Error",
                 <<"Invalid handler return type, ", k>>)), log)

\* #runHandler; meta says in which role the handler is called
runHandler(st, rid, handler, params, errorHandler, protocol, meta, log) ==
  LET request == RequestOf(params[KeyRequest])
      log1 == Append(log, Invoked(rid, meta.role, meta.idx, handler, params,
                                  <<>>, request))
      \* the try block: what handleReturn is, or what was thrown
      tried ==
        IF handler.kind = "router"
        THEN LET st1 == [st EXCEPT ![handler.id].params =
                                      Spread(@, st[rid].params)]
                 r == runRouter(st1, handler.id, request, childParts(params), log1)
             IN [st |-> r.st, log |-> r.log,
                 ret |-> CASE r.out.k = "throw" -> Throw(r.out.err)
                           [] r.out.k = "value" -> ReturnString(r.out.text)
                           [] OTHER -> ReturnResponse(r.out.resp)]
        ELSE [st |-> st, log |-> log1,
              ret |-> Behave(handler.id, params, st[rid].params, request)]
  IN IF tried.ret.k = "throw"
     THEN LET error == toError(tried.ret.err)
          IN IF errorHandler # NoHandler
             THEN LET again == runHandler(tried.st, rid, errorHandler,
                                 errorParams(params, error),
                                 NoHandler, "", [role |-> "error", idx |-> 0],
                                 tried.log)
                  IN IF again.out.k = "throw"
                     THEN Done(again.st, errorHandlerFailed(again.out.err),
                               again.log)
                     ELSE again
             ELSE Done(tried.st, unhandled(error), tried.log)
     ELSE coerce(tried.st, rid, tried.ret, params, protocol, tried.log)

\* the for loop over this.routes, from entry i on, then the default handler
routeLoop(st, rid, request, parts, i, log) ==
  LET this == st[rid]
  IN IF i > Len(this.routes)
     THEN IF this.defaultHandler # NoHandler
          THEN runHandler(st, rid, this.defaultHandler,
                 defaultParams(this.params, parts, request, rid),
                 this.errorHandler, "", [role |-> "default", idx |-> 0], log)
          ELSE Done(st, Resolved(Response(404, <<"Not Found">>, {})), log)
     ELSE LET route == routeAt(this, i)
          IN IF methodSkips(route.method, request.method)
             THEN routeLoop(st, rid, request, parts, i + 1, log)
             ELSE
             LET tp == IF route.pattern.t = "string" THEN toParts(route.pattern.s)
                       ELSE [ok |-> TRUE, parts |-> route.pattern.p]
             IN IF ~tp.ok THEN Done(st, Rejected(URIError), log)
                ELSE
                LET routeParts == IF route.pattern.t = "undefined"
                                  THEN PatternUndefined
                                  ELSE PatternParts(tp.parts)
                    st1 == [st EXCEPT ![rid].routes[i].pattern = routeParts]
                    params == IF routeParts.t = "parts"
                              THEN matches(routeParts.p, parts)
                              ELSE [ok |-> TRUE,
                                    params |-> Prop(KeyRest, ArrayVal(parts))]
                IN IF ~params.ok
                   THEN routeLoop(st1, rid, request, parts, i + 1, log)
                   ELSE IF route.protocol = "WS" /\ ~isWebsocket(request)
                   THEN routeLoop(st1, rid, request, parts, i + 1, log)
                   ELSE
                   LET ws == route.protocol = "WS"
                       params1 == IF ws
                                  THEN Spread(params.params,
                                         Spread(Prop(KeySocket, SocketVal),
                                                Prop(KeyResponse, UpgradeResponseVal)))
                                  ELSE params.params
                       log1 == IF ws THEN Append(log, Upgraded(rid, i, request))
                               ELSE log
                   IN matched(
                        runHandler(st1, rid, route.handler,
                          routeParams(st1[rid].params, params1, request, rid),
                          st1[rid].errorHandler, route.protocol,
                          [role |-> "route", idx |-> i], log1),
                        rid, request, parts, i)

\* #runRouter
runRouter(st, rid, request, parts, log) ==
  LET log1 == Append(log, Dispatched(rid, request, parts))
      static == staticLoop(st[rid], rid, request, parts, 1, log1)
  IN IF static.served THEN Done(st, Resolved(static.resp), static.log)
     ELSE routeLoop(st, rid, request, parts, 1, static.log)

\* router.fetch(request), for the router known as rid
fetch(st, rid, request) ==
  LET parts == toParts(request.path)
  IN IF ~parts.ok THEN Done(st, Raised(URIError), <<>>)
     ELSE runRouter(st, rid, request, parts.parts, <<>>)

-----------------------------------------------------------------------------
(* The state machine: the registration calls and fetch.                    *)

\* R0 is the router whose fetch serves; M1 is a router used as a handler
RouterIds == {"R0", "M1"}

NoRequest == Request("", <<>>, "")
\* nested: the routers made by next() while the request was handled
NoFetch ==
  [done |-> FALSE, req |-> NoRequest, out |-> Resolved(NoResponse),
   log |-> <<>>, nested |-> [id \in {} |-> Router(EmptyBag)]]

\* no generator was returned yet
NoStream ==
  [made |-> FALSE, protocol |-> "", gen |-> "completed", left |-> 0,
   produced |-> 0, pendingReturn |-> FALSE, pc |-> "finished", chunk |-> 0,
   state |-> "closed", queue |-> <<>>, closeRequested |-> FALSE,
   received |-> <<>>, cancelled |-> "no", returns |-> 0,
   nexts |-> 0, asked |-> 0, waiting |-> FALSE]

tokVars == <<str, orig, tok>>
matchVars == <<mpat, mparts, mres>>

InitRouters ==
  /\ routers = [id \in RouterIds |-> Router(EmptyBag)]
  /\ last = NoFetch

IdleTokenizer == str = <<>> /\ orig = <<>> /\ tok = toParts(<<>>)
IdleMatcher == mpat = <<>> /\ mparts = <<>> /\ mres = matches(<<>>, <<>>)

\* a registration call on router rid that gives call (ok, router)
Register(rid, call) ==
  /\ routers' = [routers EXCEPT ![rid] = call.router]
  /\ last' = NoFetch
  /\ UNCHANGED <<tokVars, matchVars, stream>>

HasRoom(rid) == Len(routers[rid].routes) < MaxRoutes

Get(rid, patternOrHandler, handler) ==
  HasRoom(rid) /\ Register(rid, get(routers[rid], patternOrHandler, handler))

Post(rid, patternOrHandler, handler) ==
  HasRoom(rid) /\ Register(rid, post(routers[rid], patternOrHandler, handler))

Put_(rid, patternOrHandler, handler) ==
  HasRoom(rid) /\ Register(rid, put(routers[rid], patternOrHandler, handler))

Delete(rid, patternOrHandler, handler) ==
  HasRoom(rid) /\ Register(rid, delete(routers[rid], patternOrHandler, handler))

Socket(rid, patternOrHandler, handler) ==
  HasRoom(rid) /\ Register(rid, socket(routers[rid], patternOrHandler, handler))

Sse(rid, patternOrHandler, handler) ==
  HasRoom(rid) /\ Register(rid, sse(routers[rid], patternOrHandler, handler))

Path(rid, pattern, handler) ==
  HasRoom(rid) /\ Register(rid, [ok |-> TRUE, router |-> path(routers[rid], pattern, handler)])

Default(rid, handler) ==
  Register(rid, [ok |-> TRUE, router |-> default(routers[rid], handler)])

Catch(rid, handler) ==
  Register(rid, [ok |-> TRUE, router |-> catch(routers[rid], handler)])

StaticFiles(rid, pattern, dir) ==
  /\ Len(routers[rid].staticRoutes) < MaxStatic
  /\ Register(rid, staticFiles(routers[rid], pattern, dir))

\* R0.fetch(request)
Fetch(request) ==
  LET r == fetch(routers, "R0", request)
  IN /\ routers' = [id \in RouterIds |-> r.st[id]]
     /\ last' = [done |-> TRUE, req |-> request, out |-> r.out, log |-> r.log,
                 nested |-> [id \in (DOMAIN r.st) \ RouterIds |-> r.st[id]]]
     /\ UNCHANGED <<tokVars, matchVars, stream>>

-----------------------------------------------------------------------------
(* Dispatch order: one router, every kind of route, handlers that answer.  *)

PatAB == <<"/", "a", "/", "b">>
PatXStar == <<"/", ":", "x", "/", "*">>
PatAStar == <<"/", "a", "/", "*">>
PathAB == <<"/", "a", "/", "b">>
PathA == <<"/", "a">>

OrderPatterns == {PatAB, PatXStar}
OrderRequests ==
  {Request(m, PathAB, "") : m \in {"GET", "POST", "PUT", "DELETE"}}
  \cup {Request("GET", PathAB, "WebSocket"), Request("GET", PathB, ""),
        Request("POST", PathB, "")}

Init ==
  InitRouters /\ IdleTokenizer /\ IdleMatcher /\ stream = NoStream

Next ==
  \/ \E p \in OrderPatterns : Get("R0", ArgString(p), ArgHandler(Fn("hGet")))
  \/ Get("R0", ArgHandler(Fn("hGet")), ArgNone)
  \/ \E p \in OrderPatterns : Post("R0", ArgString(p), ArgHandler(Fn("hPost")))
  \/ \E p \in OrderPatterns : Put_("R0", ArgString(p), ArgHandler(Fn("hPut")))
  \/ \E p \in OrderPatterns : Delete("R0", ArgString(p), ArgHandler(Fn("hDelete")))
  \/ \E p \in OrderPatterns : Socket("R0", ArgString(p), ArgHandler(Fn("hSocket")))
  \/ \E p \in OrderPatterns : Sse("R0", ArgString(p), ArgHandler(Fn("hSse")))
  \/ \E p \in OrderPatterns : Path("R0", p, Fn("hPath"))
  \/ Default("R0", Fn("hDefault"))
  \/ \E request \in OrderRequests : Fetch(request)

Spec == Init /\ [][Next]_vars

-----------------------------------------------------------------------------
(* What the claims speak of, said without the code's loops.                *)

HasWildcard(pattern) == Len(pattern) > 0 /\ pattern[Len(pattern)] = Wildcard

\* the pattern without its trailing wildcard
Body(pattern) ==
  IF HasWildcard(pattern) THEN SubSeq(pattern, 1, Len(pattern) - 1) ELSE pattern

IsCapture(segment) == Len(segment) > 0 /\ segment[1] = ":"

StructurallyMatches(pattern, parts) ==
  /\ IF HasWildcard(pattern) THEN Len(Body(pattern)) <= Len(parts)
     ELSE Len(pattern) = Len(parts)
  /\ \A i \in 1..Len(Body(pattern)) :
       IsCapture(pattern[i]) \/ pattern[i] = parts[i]

\* the segments of a route's pattern, cached or not
PatternSegments(route) ==
  IF route.pattern.t = "string" THEN toParts(route.pattern.s).parts
  ELSE route.pattern.p

HasUpgradeSignature(request) ==
  request.method = "GET" /\ request.upgrade \in {"websocket", "WebSocket"}

\* the entry's method filter admits the request, its pattern matches the path
\* and, for a socket entry, the upgrade signature is present
Admits(route, request, parts) ==
  /\ route.method = "" \/ route.method = request.method
  /\ route.pattern.t = "undefined"
       \/ StructurallyMatches(PatternSegments(route), parts)
  /\ route.protocol = "WS" => HasUpgradeSignature(request)

\* a static entry of the router answers the request with something else
\* than 404
StaticServes(router, request, parts) ==
  \E i \in 1..Len(router.staticRoutes) :
    LET entry == router.staticRoutes[i]
    IN /\ request.method \in {"GET", "HEAD"}
       /\ StructurallyMatches(entry.pattern, parts)
       /\ Len(parts) > Len(Body(entry.pattern))
       /\ staticCallback(entry.dir, request,
            join(SubSeq(parts, Len(Body(entry.pattern)) + 1, Len(parts)), "/")).status # 404

Log == last.log
Events == DOMAIN last.log
IsInvoke(k, role) == Log[k].ev = "invoke" /\ Log[k].role = role
IsDispatch(k) == Log[k].ev = "dispatch"

\* the dispatch of its router that the event k belongs to
DispatchOf(k) ==
  CHOOSE d \in 1..k :
    /\ IsDispatch(d) /\ Log[d].router = Log[k].router
    /\ \A e \in (d + 1)..k : ~(IsDispatch(e) /\ Log[e].router = Log[k].router)

\* the response of a plain handler
PlainResponse(handler) == Response(200, <<handler.id>>, {})

NotFound == Response(404, <<"Not Found">>, {})

-----------------------------------------------------------------------------
(* C1: the handler a router's dispatch invokes is the one of the           *)
(* earliest-registered entry whose method filter admits the request, whose *)
(* pattern matches the path and, for a socket entry, whose upgrade         *)
(* signature is present; no later entry's handler is invoked, however much *)
(* more specific its pattern, and when such an entry exists and no static  *)
(* entry answers, its handler is invoked.                                  *)
C1_FirstMatchWins ==
  last.done =>
    /\ \A k \in Events :
         (IsInvoke(k, "route") /\ Log[k].router \in RouterIds) =>
           LET table == routers[Log[k].router].routes
               parts == Log[DispatchOf(k)].parts
               i == Log[k].idx
           IN /\ i \in DOMAIN table
              /\ Admits(table[i], last.req, parts)
              /\ Log[k].handler = table[i].handler
              /\ \A j \in 1..(i - 1) : ~Admits(table[j], last.req, parts)
              /\ \A k2 \in Events :
                   (IsInvoke(k2, "route") /\ Log[k2].router = Log[k].router
                      /\ DispatchOf(k2) = DispatchOf(k)) => k2 = k
    /\ \A d \in Events :
         (IsDispatch(d) /\ Log[d].router \in RouterIds) =>
           LET router == routers[Log[d].router]
           IN ((\E i \in DOMAIN router.routes :
                   Admits(router.routes[i], last.req, Log[d].parts))
               /\ ~StaticServes(router, last.req, Log[d].parts))
              => \E k \in Events :
                   /\ k > d /\ IsInvoke(k, "route")
                   /\ Log[k].router = Log[d].router /\ DispatchOf(k) = d

\* a catch-all registered first is served although the entry after it names
\* the path exactly
C1_Witness ==
  /\ last.done
  /\ Len(routers["R0"].routes) = 2
  /\ PatternSegments(routers["R0"].routes[1]) = <<<<":", "x">>, <<"*">>>>
  /\ PatternSegments(routers["R0"].routes[2]) = <<<<"a">>, <<"b">>>>
  /\ Admits(routers["R0"].routes[2], last.req, <<<<"a">>, <<"b">>>>)
  /\ \E k \in Events : IsInvoke(k, "route") /\ Log[k].idx = 1
  /\ last.out = Resolved(PlainResponse(routers["R0"].routes[1].handler))

-----------------------------------------------------------------------------
(* C2: when every entry of the route table was registered through get,     *)
(* post, put or delete for the same pattern, a request on a path the       *)
(* pattern matches invokes exactly the handler registered for its method   *)
(* and is answered by it; when no entry has its method, none of the        *)
(* handlers is invoked and the answer is the default handler's, or 404     *)
(* when there is none.                                                     *)
SamePatternByMethod(table, parts) ==
  /\ Len(table) > 0
  /\ \A i \in DOMAIN table :
       /\ table[i].protocol = "HTTP"
       /\ table[i].method \in {"GET", "POST", "PUT", "DELETE"}
       /\ table[i].pattern.t # "undefined"
       /\ PatternSegments(table[i]) = PatternSegments(table[1])
  /\ StructurallyMatches(PatternSegments(table[1]), parts)

C2_MethodIsolation ==
  LET table == routers["R0"].routes
      parts == toParts(last.req.path).parts
      invoked == {Log[k].handler : k \in {e \in Events : IsInvoke(e, "route")}}
      forMethod == {table[i].handler :
                      i \in {j \in DOMAIN table : table[j].method = last.req.method}}
      fallback == routers["R0"].defaultHandler
  IN (last.done /\ routers["R0"].staticRoutes = <<>>
        /\ SamePatternByMethod(table, parts)) =>
       IF forMethod # {}
       THEN /\ invoked # {} /\ invoked \subseteq forMethod
            /\ \E h \in invoked : last.out = Resolved(PlainResponse(h))
            /\ \A k \in Events : ~IsInvoke(k, "default")
       ELSE /\ invoked = {}
            /\ IF fallback # NoHandler
               THEN /\ \E k \in Events :
                         IsInvoke(k, "default") /\ Log[k].handler = fallback
                    /\ last.out = Resolved(PlainResponse(fallback))
               ELSE last.out = Resolved(NotFound)

\* GET and POST handlers on one pattern, and a POST request
C2_Witness ==
  /\ last.done
  /\ SamePatternByMethod(routers["R0"].routes, toParts(last.req.path).parts)
  /\ Len(routers["R0"].routes) = 2
  /\ routers["R0"].routes[1].method = "GET"
  /\ routers["R0"].routes[2].method = "POST"
  /\ last.req.method = "POST"
  /\ last.out = Resolved(PlainResponse(Fn("hPost")))

-----------------------------------------------------------------------------
(* Static files before routes: one router with static entries, routes and  *)
(* a default handler.                                                      *)

PatStar == <<"/", "*">>
PathAA == <<"/", "a", "/", "a">>
PathABB == <<"/", "a", "/", "b", "/", "b">>

StaticRequests ==
  {Request("GET", p, "") : p \in {PathAB, PathAA, PathABB, PathB, PathA}}
  \cup {Request("HEAD", PathAB, ""), Request("POST", PathAB, "")}

NextStatic ==
  \/ \E p \in {PatAStar, PatStar} : StaticFiles("R0", p, "public")
  \/ StaticFiles("R0", PatStar, "assets")
  \/ Get("R0", ArgString(PatAB), ArgHandler(Fn("hGet")))
  \/ Post("R0", ArgHandler(Fn("hPost")), ArgNone)
  \/ Path("R0", PatXStar, Fn("hPath"))
  \/ Default("R0", Fn("hDefault"))
  \/ \E request \in StaticRequests : Fetch(request)

SpecStatic == Init /\ [][NextStatic]_vars

-----------------------------------------------------------------------------
(* C8: when no static entry serves the request and no route entry admits   *)
(* it, the default handler, if one is registered, is invoked with _ equal  *)
(* to the segment sequence the router was dispatched with; otherwise the   *)
(* response is 404 with the body "Not Found". The default handler is       *)
(* invoked in no other case.                                               *)
Unmatched(d) ==
  LET router == routers[Log[d].router]
  IN /\ ~StaticServes(router, last.req, Log[d].parts)
     /\ \A i \in DOMAIN router.routes :
          ~Admits(router.routes[i], last.req, Log[d].parts)

C8_DefaultOrNotFound ==
  last.done =>
    /\ \A d \in Events :
         (IsDispatch(d) /\ Log[d].router \in RouterIds /\ Unmatched(d)) =>
           LET fallback == routers[Log[d].router].defaultHandler
           IN IF fallback # NoHandler
              THEN \E k \in Events :
                     /\ k > d /\ IsInvoke(k, "default") /\ DispatchOf(k) = d
                     /\ Log[k].router = Log[d].router
                     /\ Log[k].handler = fallback
                     /\ Log[k].params[KeyRest] = ArrayVal(Log[d].parts)
              ELSE /\ last.out = Resolved(NotFound)
                   /\ \A k \in Events : k > d => Log[k].ev = "invoke" /\ Log[k].role = "static"
    /\ \A k \in Events :
         (IsInvoke(k, "default") /\ Log[k].router \in RouterIds) =>
           Unmatched(DispatchOf(k))

\* a static entry matches but has no such file, no route matches, and the
\* default handler gets the whole path
C8_Witness ==
  /\ last.done
  /\ \E k \in Events : IsInvoke(k, "static")
  /\ \E k \in Events :
       /\ IsInvoke(k, "default")
       /\ Log[k].params[KeyRest] = ArrayVal(<<<<"a">>, <<"b">>, <<"b">>>>)
  /\ last.out = Resolved(PlainResponse(Fn("hDefault")))

-----------------------------------------------------------------------------
(* Nested routers: routes of R0 whose handler returns next()... or is the  *)
(* router M1, which has routes of its own.                                 *)

NestRequests ==
  {Request("GET", p, "") : p \in {PathAB, PathABB, PathB}}
  \cup {Request("POST", PathAB, "")}

NextNest ==
  \/ \E h \in {Fn("hNest"), Fn("hNestX")} : Path("R0", PatXStar, h)
  \/ \E h \in {Fn("hNest"), RouterHandler("M1")} : Path("R0", PatAStar, h)
  \/ Get("R0", ArgHandler(RouterHandler("M1")), ArgNone)
  \/ \E h \in {Fn("hNestDefault"), RouterHandler("M1")} : Default("R0", h)
  \/ \E p \in {PathB, PatAB} : Path("M1", p, Fn("h1"))
  \/ \E request \in NestRequests : Fetch(request)

SpecNest == Init /\ [][NextNest]_vars

\* the handlers of the runs that return next().path("/b", h1), and the one
\* of them that hands its capture x to next
Nesting == {Fn("hNest"), Fn("hNestX")}

\* the route handler of a router that lives on was called at j, with "/b"
\* left of the path, and returned a nested router
NestsAt(j) ==
  /\ IsInvoke(j, "route") /\ Log[j].router \in RouterIds
  /\ Log[j].handler \in Nesting
  /\ Log[j].params[KeyRest] = ArrayVal(<<<<"b">>>>)

\* h1, the handler of the nested router, was called at k
NestedAt(j, k) ==
  /\ k > j /\ IsInvoke(k, "route") /\ Log[k].router = "N1"
  /\ Log[k].handler = Fn("h1")

-----------------------------------------------------------------------------
(* C3, as claimed: the captures of the parent match are in the parameter   *)
(* bag of the handlers of the nested router built with next().             *)
C3_CapturesReachNestedBag ==
  last.done =>
    \A j \in Events : \A k \in Events :
      (NestsAt(j) /\ NestedAt(j, k) /\ KeyX \in DOMAIN Log[j].params) =>
        /\ KeyX \in DOMAIN Log[k].params
        /\ Log[k].params[KeyX] = Log[j].params[KeyX]

(* C3, amended: a route on /:x/* whose handler returns                     *)
(* next().path("/b", h) routes /a/b to h, which answers; the bag of h      *)
(* holds the capture x only when the parent handler handed it to next      *)
(* (next({x})) or the parent router has it as an ambient value.            *)
C3_NestedDelegation ==
  last.done =>
    \A j \in Events :
      NestsAt(j) =>
        /\ \E k \in Events : NestedAt(j, k)
        /\ last.out = Resolved(PlainResponse(Fn("h1")))
        /\ \A k \in Events :
             NestedAt(j, k) =>
               /\ Log[k].params[KeyRest] = ArrayVal(<<>>)
               /\ Log[k].params[KeyRequest] = RequestVal(last.req)
               /\ (Log[j].handler = Fn("hNestX") /\ KeyX \in DOMAIN Log[j].params)
                    => /\ KeyX \in DOMAIN Log[k].params
                       /\ Log[k].params[KeyX] = Log[j].params[KeyX]
               /\ (Log[j].handler = Fn("hNest")
                     /\ KeyX \notin DOMAIN routers[Log[j].router].params)
                    => KeyX \notin DOMAIN Log[k].params

\* /:x/* with the handler that hands x to next, on /a/b
C3_Witness ==
  /\ last.done
  /\ \E j \in Events : \E k \in Events :
       /\ NestsAt(j) /\ NestedAt(j, k)
       /\ Log[j].handler = Fn("hNestX")
       /\ Log[j].params[KeyX] = StringVal(<<"a">>)
       /\ Log[k].params[KeyX] = StringVal(<<"a">>)

-----------------------------------------------------------------------------
(* C4: a router that a handler returns, or that is registered as the       *)
(* handler, is dispatched with the request of the fetch and with the _ of  *)
(* the parameter bag; for a route with a pattern that is what the parent's *)
(* match left over, shorter than the parent's parts whenever the pattern   *)
(* has a segment before its wildcard.                                      *)
C4_ChildGetsRemainder ==
  last.done =>
    \A d \in Events :
      (IsDispatch(d) /\ d > 1) =>
        LET k == d - 1
            parent == Log[DispatchOf(k)].parts
        IN /\ Log[k].ev = "invoke"
           /\ Log[d].req = last.req
           /\ Log[d].parts = Log[k].params[KeyRest].v
           /\ (Log[k].role = "route" /\ Log[k].router \in RouterIds) =>
                LET route == routers[Log[k].router].routes[Log[k].idx]
                    n == Len(Body(PatternSegments(route)))
                IN route.pattern.t # "undefined" =>
                     /\ Log[d].parts = SubSeq(parent, n + 1, Len(parent))
                     /\ n > 0 => Log[d].parts # parent

\* /a/* with the router M1 as handler lets M1 match /b on /a/b
C4_Witness ==
  /\ last.done
  /\ last.req.path = PathAB
  /\ \E d \in Events :
       /\ IsDispatch(d) /\ Log[d].router = "M1" /\ Log[d].parts = <<<<"b">>>>
       /\ Log[DispatchOf(d - 1)].parts = <<<<"a">>, <<"b">>>>
       /\ Log[d - 1].handler = RouterHandler("M1")
  /\ last.out = Resolved(PlainResponse(Fn("h1")))

-----------------------------------------------------------------------------
(* Failing handlers: routes and default handlers that throw, with and      *)
(* without an error handler, which may fail too; M1 is mounted in R0.      *)

ErrorRequests ==
  {Request("GET", PathAB, ""), Request("POST", PathAB, ""),
   Request("GET", PathB, "")}

NextError ==
  \/ \E h \in {Fn("hThrow"), Fn("hThrowStr"), Fn("hGet")} :
       Get("R0", ArgString(PatAB), ArgHandler(h))
  \/ Path("R0", PatXStar, RouterHandler("M1"))
  \/ \E h \in {Fn("hThrow"), Fn("hDefault")} : Default("R0", h)
  \/ \E h \in {Fn("hCatch"), Fn("hCatchThrow"), Fn("hNumber")} : Catch("R0", h)
  \/ Path("M1", PathB, Fn("hThrow"))
  \/ Catch("M1", Fn("hCatch"))
  \/ \E request \in ErrorRequests : Fetch(request)

SpecError == Init /\ [][NextError]_vars

\* what the handlers of these runs throw: an Error, or a string
Throws(handler) ==
  handler \in {Fn("hThrow"), Fn("hThrowStr"), Fn("hCatchThrow")}
\* the message of the Error that reaches the error handler
MessageOf(handler) ==
  IF handler = Fn("hThrow") THEN "boom" ELSE "oops"

\* a route or default handler was called at k and threw
FailsAt(k) ==
  /\ Log[k].ev = "invoke" /\ Log[k].role \in {"route", "default"}
  /\ Throws(Log[k].handler)

ErrorHandlerOf(k) == routers[Log[k].router].errorHandler

-----------------------------------------------------------------------------
(* C5: when a route or default handler throws and its router has an error  *)
(* handler, the error handler is called next, with the bag of the failed   *)
(* handler plus error, an Error (a thrown string is wrapped in one); the   *)
(* response the error handler returns is the result of the fetch.          *)
C5_ErrorHandlerAnswers ==
  last.done =>
    \A k \in Events :
      (FailsAt(k) /\ ErrorHandlerOf(k) # NoHandler) =>
        /\ k + 1 \in Events
        /\ IsInvoke(k + 1, "error")
        /\ Log[k + 1].router = Log[k].router
        /\ Log[k + 1].handler = ErrorHandlerOf(k)
        /\ LET was == Log[k].params
               now == Log[k + 1].params
           IN /\ DOMAIN now = DOMAIN was \cup {KeyError}
              /\ \A key \in DOMAIN was \ {KeyError} : now[key] = was[key]
              /\ now[KeyError] =
                   [t |-> "Error",
                    v |-> <<<<"Error">>, <<MessageOf(Log[k].handler)>>>>]
        /\ ErrorHandlerOf(k) = Fn("hCatch") =>
             last.out = Resolved(Response(500,
               <<"Server error: ", "Error", ": ", MessageOf(Log[k].handler)>>,
               {}))

\* a thrown string reaches the error handler of R0 as an Error
C5_Witness ==
  /\ last.done
  /\ \E k \in Events :
       /\ FailsAt(k) /\ Log[k].router = "R0"
       /\ Log[k].handler = Fn("hThrowStr")
       /\ ErrorHandlerOf(k) = Fn("hCatch")
  /\ last.out = Resolved(Response(500,
       <<"Server error: ", "Error", ": ", "oops">>, {}))

-----------------------------------------------------------------------------
(* C6: a fetch calls the error handler once for the handler that failed    *)
(* and never again; when the error handler fails too (it throws, or what   *)
(* it returns is no valid return), nothing is called after it and the      *)
(* result is a response with status 500.                                   *)
C6_ErrorHandlerOnce ==
  last.done =>
    LET failed == {k \in Events : FailsAt(k) /\ ErrorHandlerOf(k) # NoHandler}
        handled == {k \in Events : IsInvoke(k, "error")}
    IN /\ Cardinality(handled) = Cardinality(failed)
       /\ Cardinality(handled) <= 1
       /\ \A k \in handled :
            /\ k > 1 /\ FailsAt(k - 1)
            /\ Log[k].handler \in {Fn("hCatchThrow"), Fn("hNumber")} =>
                 /\ k = Len(Log)
                 /\ last.out.k = "response"
                 /\ last.out.resp.status = 500
                 /\ Log[k].handler = Fn("hCatchThrow") =>
                      last.out.resp.body = <<"Error", ": ", "again">>

\* the error handler throws after a handler threw
C6_Witness ==
  /\ last.done
  /\ Len(Log) > 1
  /\ IsInvoke(Len(Log), "error")
  /\ Log[Len(Log)].handler = Fn("hCatchThrow")
  /\ FailsAt(Len(Log) - 1)
  /\ last.out = Resolved(Response(500, <<"Error", ": ", "again">>, {}))

-----------------------------------------------------------------------------
(* C7: when a route or default handler throws and its router has no error  *)
(* handler, no handler is called after it and the result is a response     *)
(* with status 500 whose body is the thrown value as an Error, in text.    *)
C7_Unhandled500 ==
  last.done =>
    \A k \in Events :
      (FailsAt(k) /\ ErrorHandlerOf(k) = NoHandler) =>
        /\ k = Len(Log)
        /\ last.out = Resolved(Response(500,
             <<"Error", ": ", MessageOf(Log[k].handler)>>, {}))

\* the first route throws; a second route and a default handler are there
C7_Witness ==
  /\ last.done
  /\ routers["R0"].errorHandler = NoHandler
  /\ routers["R0"].defaultHandler # NoHandler
  /\ Len(routers["R0"].routes) = 2
  /\ \E k \in Events :
       /\ FailsAt(k) /\ Log[k].router = "R0" /\ Log[k].role = "route"
       /\ Log[k].idx = 1
  /\ last.out = Resolved(Response(500, <<"Error", ": ", "boom">>, {}))

-----------------------------------------------------------------------------
(* Tokenizer runs: a string is written letter by letter, then slashes are  *)
(* put in and taken out where they are leading, trailing or next to        *)
(* another slash; every version is tokenized.                              *)

\* put c in s after position i
insertAt(s, i, c) == SubSeq(s, 1, i) \o <<c>> \o SubSeq(s, i + 1, Len(s))
\* take position i out of s
removeAt(s, i) == SubSeq(s, 1, i - 1) \o SubSeq(s, i + 1, Len(s))

\* s has a slash at position i
slashAt(s, i) == IF i \in 1..Len(s) THEN s[i] = "/" ELSE FALSE

Write(c) ==
  /\ str = orig
  /\ Len(orig) < MaxLen
  /\ orig' = Append(orig, c) /\ str' = orig' /\ tok' = toParts(orig')
  /\ UNCHANGED <<routers, last, matchVars, stream>>

InsertSlash(i) ==
  /\ Len(str) <= MaxLen
  /\ i \in 0..Len(str)
  /\ i = 0 \/ i = Len(str) \/ slashAt(str, i) \/ slashAt(str, i + 1)
  /\ str' = insertAt(str, i, "/")
  /\ tok' = toParts(str')
  /\ UNCHANGED <<routers, last, orig, matchVars, stream>>

RemoveSlash(i) ==
  /\ i \in 1..Len(str)
  /\ slashAt(str, i)
  /\ i = 1 \/ i = Len(str) \/ slashAt(str, i - 1) \/ slashAt(str, i + 1)
  /\ str' = removeAt(str, i)
  /\ tok' = toParts(str')
  /\ UNCHANGED <<routers, last, orig, matchVars, stream>>

NextParts ==
  \/ \E c \in Char : Write(c)
  \/ \E i \in 0..(MaxLen + 1) : InsertSlash(i)
  \/ \E i \in 1..(MaxLen + 1) : RemoveSlash(i)

SpecParts == Init /\ [][NextParts]_vars

\* segment sequences to match the tokenized string with, as the pattern and
\* as the request path
Probes ==
  {<<>>, <<<<"a">>>>, <<<<"a">>, <<"a">>>>, <<<<":", "a">>>>,
   <<<<":", "a">>, <<"a">>>>, <<<<"/">>>>, <<<<"a">>, Wildcard>>}

-----------------------------------------------------------------------------
(* C9: a string and a string that differs from it only in leading,         *)
(* trailing or duplicate slashes tokenize alike (to the same segments, or  *)
(* both fail to decode), and so match alike, as a pattern and as a request *)
(* path.                                                                   *)
C9_SlashNormalization ==
  LET first == toParts(orig)
  IN /\ tok = first
     /\ tok.ok =>
          \A probe \in Probes :
            /\ matches(tok.parts, probe) = matches(first.parts, probe)
            /\ matches(probe, tok.parts) = matches(probe, first.parts)

\* a/a written as /a/a/ matches the path /a/a
C9_Witness ==
  /\ orig = <<"a", "/", "a">>
  /\ str = <<"/", "a", "/", "a", "/">>
  /\ tok.ok
  /\ tok.parts = <<<<"a">>, <<"a">>>>
  /\ matches(tok.parts, toParts(<<"/", "a", "/", "a">>).parts).ok

-----------------------------------------------------------------------------
(* Matcher runs: a pattern and a request's segments grow by a segment and  *)
(* matches is called on them.                                              *)

PatternSegs ==
  {<<"a">>, <<":", "x">>, <<":", "_">>, <<":">> \o KeyProto, Wildcard}
PartSegs == {<<"a">>, <<"b">>, Wildcard}

Match(pattern, parts) ==
  /\ mpat' = pattern /\ mparts' = parts
  /\ mres' = matches(pattern, parts)
  /\ UNCHANGED <<routers, last, tokVars, stream>>

\* the pattern grows by a segment
MatchLongerPattern(segment) ==
  /\ Len(mpat) < MaxPattern
  /\ Match(Append(mpat, segment), mparts)

\* the request's path grows by a segment
MatchLongerPath(segment) ==
  /\ Len(mparts) < MaxParts
  /\ Match(mpat, Append(mparts, segment))

NextMatch ==
  \/ \E segment \in PatternSegs : MatchLongerPattern(segment)
  \/ \E segment \in PartSegs : MatchLongerPath(segment)

SpecMatch == Init /\ [][NextMatch]_vars

\* the indexes of the captures of the pattern
CaptureAt(i) == i \in 1..Len(Body(mpat)) /\ IsCapture(mpat[i])
NameAt(i) == Tail(mpat[i])
Remainder == ArrayVal(SubSeq(mparts, Len(Body(mpat)) + 1, Len(mparts)))

-----------------------------------------------------------------------------
-----------------------------------------------------------------------------
\* the static entry matches the parts and leaves a file name
StaticMatches(entry, parts) ==
  /\ StructurallyMatches(entry.pattern, parts)
  /\ Len(parts) > Len(Body(entry.pattern))

\* what the callback of the entry answers for the parts
StaticAnswer(entry, parts) ==
  staticCallback(entry.dir, last.req,
    join(SubSeq(parts, Len(Body(entry.pattern)) + 1, Len(parts)), "/"))

\* the calls of static callbacks, in the order of the log
StaticCalls == SelectSeq(Log, LAMBDA event : event.ev = "invoke" /\ event.role = "static")
OtherEvents == SelectSeq(Log, LAMBDA event : ~(event.ev = "invoke" /\ event.role = "static"))

(* C11: for GET and HEAD the static entries that match are called in       *)
(* registration order; the first answer whose status is not 404 is the     *)
(* result, no entry after it and no route or default handler is called;    *)
(* when all answer 404 the routes handle the request as they do on the     *)
(* same router without static entries.                                     *)
C11_StaticBeforeRoutes ==
  (last.done /\ last.req.method \in {"GET", "HEAD"}) =>
    LET entries == routers["R0"].staticRoutes
        parts == Log[1].parts
        matching == {i \in DOMAIN entries : StaticMatches(entries[i], parts)}
        serving == {i \in matching : StaticAnswer(entries[i], parts).status # 404}
        called == {StaticCalls[k].idx : k \in DOMAIN StaticCalls}
    IN /\ \A k \in DOMAIN StaticCalls :
            k > 1 => StaticCalls[k - 1].idx < StaticCalls[k].idx
       /\ IF serving # {}
          THEN LET first == CHOOSE i \in serving : \A j \in serving : i <= j
               IN /\ last.out = Resolved(StaticAnswer(entries[first], parts))
                  /\ called = {i \in matching : i <= first}
                  /\ Len(OtherEvents) = 1
          ELSE LET bare == fetch([routers EXCEPT !["R0"].staticRoutes = <<>>],
                                 "R0", last.req)
               IN /\ called = matching
                  /\ last.out = bare.out
                  /\ OtherEvents = bare.log

\* two entries have the file, a route matches too: the first entry answers
C11_Witness ==
  /\ last.done
  /\ last.req = Request("GET", PathAB, "")
  /\ Len(routers["R0"].staticRoutes) = 2
  /\ \A i \in {1, 2} :
       StaticAnswer(routers["R0"].staticRoutes[i], Log[1].parts).status = 200
  /\ routers["R0"].staticRoutes[1].dir # routers["R0"].staticRoutes[2].dir
  /\ \E i \in DOMAIN routers["R0"].routes :
       Admits(routers["R0"].routes[i], last.req, Log[1].parts)
  /\ last.out = Resolved(Response(200, <<"file ", "public", "/", "b">>, {}))

-----------------------------------------------------------------------------
(* Return values: routes and default handlers of R0 that return one value  *)
(* of each kind.                                                           *)

ReturnHandlers ==
  {Fn(id) : id \in {"h1", "hString", "hObject", "hArray", "hBytes", "hBlob",
                    "hFile", "hFileNoType", "hNull", "hZero", "hFalse",
                    "hNumber", "hTrue", "hSymbol", "hFunction"}}

CoerceRequests == {Request("GET", PathAB, ""), Request("GET", PathB, "")}

NextCoerce ==
  \/ \E h \in ReturnHandlers : Get("R0", ArgString(PatAB), ArgHandler(h))
  \/ \E h \in {Fn("hFile"), Fn("hZero")} : Default("R0", h)
  \/ \E request \in CoerceRequests : Fetch(request)

SpecCoerce == Init /\ [][NextCoerce]_vars

\* the handler that was called in the last fetch, if one was
Called(h) == \E k \in Events : Log[k].ev = "invoke" /\ Log[k].handler = h

HeadersOf(out) == out.resp.headers

-----------------------------------------------------------------------------
(* C12, as claimed: a handler that returns a File yields a 200 response    *)
(* with the file's type (application/octet-stream when it has none) as     *)
(* Content-Type, its size as Content-Length and                            *)
(* Content-Disposition: attachment; filename="<name>".                     *)
C12_FileResponse ==
  last.done =>
    /\ Called(Fn("hFile")) =>
         /\ last.out.k = "response" /\ last.out.resp.status = 200
         /\ HeadersOf(last.out) =
              {<<"Content-Type", "text/plain">>, <<"Content-Length", "3">>,
               <<"Content-Disposition", "attachment; filename=", "foo.txt">>}
    /\ Called(Fn("hFileNoType")) =>
         /\ last.out.k = "response" /\ last.out.resp.status = 200
         /\ HeadersOf(last.out) =
              {<<"Content-Type", "application/octet-stream">>,
               <<"Content-Length", "3">>,
               <<"Content-Disposition", "attachment; filename=", "foo.bin">>}

-----------------------------------------------------------------------------
-----------------------------------------------------------------------------
(* C14, as claimed: a handler that returns a number, a boolean, a symbol   *)
(* or a function never gets a response: handling fails with an Invalid     *)
(* handler return type error.                                              *)
C14_InvalidReturnFails ==
  last.done =>
    \A h \in {Fn("hZero"), Fn("hFalse"), Fn("hNumber"), Fn("hTrue"),
              Fn("hSymbol"), Fn("hFunction")} :
      Called(h) =>
        /\ last.out.k = "throw"
        /\ last.out.err.message[1] = "Invalid handler return type, "

-----------------------------------------------------------------------------
(* Malformed escapes: a "%" that starts no escape, in a request's path and *)
(* in a pattern, with handlers and error handlers that throw.              *)

PatPercent == <<"/", "%">>
PathEscaped == <<"/", "a", "%2F", "a">>

EscapeRequests ==
  {Request("GET", p, "") : p \in {PathAB, PatPercent, PathEscaped}}

NextEscape ==
  \/ \E p \in {PatAB, PatPercent} : \E h \in {Fn("hGet"), Fn("hThrow")} :
       Get("R0", ArgString(p), ArgHandler(h))
  \/ \E h \in {Fn("hCatch"), Fn("hCatchThrow")} : Catch("R0", h)
  \/ \E request \in EscapeRequests : Fetch(request)

SpecEscape == Init /\ [][NextEscape]_vars

-----------------------------------------------------------------------------
(* C15, as claimed: but for a handler's return value that is no valid      *)
(* return, fetch neither throws nor rejects: it resolves to a response,    *)
(* whatever the request's path, the patterns and the failures of handlers  *)
(* and error handlers.                                                     *)
C15_NoFailureEscapes ==
  last.done =>
    \/ last.out.k = "response"
    \/ /\ last.out.k = "throw"
       /\ Len(last.out.err.message) > 0
       /\ last.out.err.message[1] = "Invalid handler return type, "

-----------------------------------------------------------------------------
(* C20, as claimed: toParts gives, for every string, the sequence of its   *)
(* segments, none empty, decoded, in the order of the string, and never    *)
(* throws.                                                                 *)
C20_TokenizerTotal ==
  /\ tok.ok
  /\ \A i \in 1..Len(tok.parts) : Len(tok.parts[i]) > 0
  /\ tok.parts =
       LET raw == SelectSeq(split(str), LAMBDA part : part # <<>>)
       IN [i \in 1..Len(raw) |-> decodeURIComponent(raw[i])]

-----------------------------------------------------------------------------
(* The body of a response made of an async generator: the ReadableStream   *)
(* of generatorToStream and generatorToServerEvents, the for await loop of *)
(* its start method, the generator, and the reader of the body.            *)
(*   gen: the generator is "suspendedStart", "executing" (a next() is      *)
(*        pending), "suspendedYield" or "completed"; left: the chunks it   *)
(*        still yields; pendingReturn: a return() waits behind the next()  *)
(*   pc:  the loop waits for next() ("awaitNext"), has a chunk             *)
(*        ("gotChunk"), has seen the end ("gotDone"), is over ("finished") *)
(*        or was left by an exception ("failed")                           *)
(*   state, queue, closeRequested: the stream and its controller           *)
(*   received: what the reader has read; cancelled: the reader cancelled   *)
(*   asked: the calls of read(); waiting: a read() waits for a chunk       *)
(*   returns, nexts: the calls of generator.return(), generator.next()     *)

\* generator.return() is called
generatorReturn(s) ==
  IF s.gen = "executing"
  THEN [s EXCEPT !.returns = @ + 1, !.pendingReturn = TRUE]
  ELSE [s EXCEPT !.returns = @ + 1, !.gen = "completed", !.left = 0]

\* generator.next() is called by the loop
generatorNext(s) ==
  IF s.gen = "completed" THEN [s EXCEPT !.nexts = @ + 1, !.pc = "gotDone"]
  ELSE [s EXCEPT !.nexts = @ + 1, !.gen = "executing", !.pc = "awaitNext"]

\* ReadableStreamDefaultControllerCanCloseOrEnqueue
canCloseOrEnqueue(s) == s.state = "readable" /\ ~s.closeRequested

\* controller.enqueue(chunk) on a stream that takes it: a read() that waits
\* gets the chunk, otherwise it joins the queue
enqueue(s, chunk) ==
  IF s.waiting
  THEN [s EXCEPT !.received = Append(@, chunk), !.waiting = FALSE]
  ELSE [s EXCEPT !.queue = Append(@, chunk)]

streamFrame == UNCHANGED <<routers, last, tokVars, matchVars>>

\* a handler returned a generator of n chunks: the stream is made and its
\* start method calls next()
Respond(protocol, n) ==
  /\ ~stream.made
  /\ stream' = generatorNext([NoStream EXCEPT
       !.made = TRUE, !.protocol = protocol, !.gen = "suspendedStart",
       !.left = n, !.state = "readable"])
  /\ streamFrame

\* the generator yields its next chunk; a return() that waited ends it
GeneratorYields ==
  /\ stream.made /\ stream.gen = "executing" /\ stream.left > 0
  /\ stream' = [stream EXCEPT
       !.produced = @ + 1,
       !.chunk = stream.produced + 1,
       !.pc = "gotChunk",
       !.left = IF stream.pendingReturn THEN 0 ELSE @ - 1,
       !.gen = IF stream.pendingReturn THEN "completed" ELSE "suspendedYield",
       !.pendingReturn = FALSE]
  /\ streamFrame

\* the generator comes to its end
GeneratorEnds ==
  /\ stream.made /\ stream.gen = "executing" /\ stream.left = 0
  /\ stream' = [stream EXCEPT !.gen = "completed", !.pc = "gotDone",
                              !.pendingReturn = FALSE]
  /\ streamFrame

\* the body of the loop: controller.enqueue(chunk), then next() again; when
\* enqueue throws, for await calls return() and start is over
Enqueue ==
  /\ stream.made /\ stream.pc = "gotChunk"
  /\ stream' =
       IF canCloseOrEnqueue(stream)
       THEN generatorNext(enqueue(stream, stream.chunk))
       ELSE [generatorReturn(stream) EXCEPT !.pc = "failed"]
  /\ streamFrame

\* after the loop: controller.close() in generatorToStream, nothing in
\* generatorToServerEvents
Close ==
  /\ stream.made /\ stream.pc = "gotDone"
  /\ stream' =
       IF stream.protocol = "SSE" THEN [stream EXCEPT !.pc = "finished"]
       ELSE IF canCloseOrEnqueue(stream)
       THEN [stream EXCEPT !.pc = "finished", !.closeRequested = TRUE,
                           !.state = IF stream.queue = <<>> THEN "closed" ELSE @,
                           !.waiting = FALSE]
       ELSE [stream EXCEPT !.pc = "failed"]
  /\ streamFrame

\* the reader calls read(): it takes the first chunk of the queue, or waits
\* for one when the queue is empty
Read ==
  /\ stream.made /\ stream.state = "readable" /\ ~stream.waiting
  /\ stream' =
       IF stream.queue = <<>>
       THEN [stream EXCEPT !.asked = @ + 1, !.waiting = TRUE]
       ELSE [stream EXCEPT
              !.asked = @ + 1,
              !.received = Append(@, Head(stream.queue)),
              !.queue = Tail(@),
              !.state = IF Tail(stream.queue) = <<>> /\ stream.closeRequested
                        THEN "closed" ELSE @]
  /\ streamFrame

\* the reader cancels the body: cancel() of the source runs while the
\* stream is readable
Cancel ==
  /\ stream.made /\ stream.cancelled = "no"
  /\ stream' =
       IF stream.state = "readable"
       THEN generatorReturn([stream EXCEPT !.state = "closed", !.queue = <<>>,
                                           !.cancelled = "yes",
                                           !.waiting = FALSE])
       ELSE [stream EXCEPT !.cancelled = "late"]
  /\ streamFrame

NextStream ==
  \/ \E protocol \in {"HTTP", "SSE"} : \E n \in 0..MaxChunks : Respond(protocol, n)
  \/ GeneratorYields
  \/ GeneratorEnds
  \/ Enqueue
  \/ Close
  \/ Read
  \/ Cancel

SpecStream == Init /\ [][NextStream]_vars

-----------------------------------------------------------------------------
(* C16, as claimed: when the reader cancels the body of a response made of *)
(* a generator, generator.return() is called once, however the cancel      *)
(* falls among the steps of the loop that pulls the chunks.                *)
C16_CancelReturnsOnce ==
  stream.cancelled = "yes" =>
    /\ stream.returns >= 1
    /\ stream.returns <= 1

-----------------------------------------------------------------------------
(* Ambient values: the router M1 is the handler of a route of R0 and of a  *)
(* route of the nested router that a handler of R0 builds with next({x}).  *)

PathBB == <<"/", "b", "/", "b">>

AmbientRequests ==
  {Request(m, p, "") : m \in {"GET", "POST"}, p \in {PathAB, PathBB}}

NextAmbient ==
  \/ Get("R0", ArgString(PatXStar), ArgHandler(Fn("hNestMountX")))
  \/ Post("R0", ArgString(PatXStar), ArgHandler(RouterHandler("M1")))
  \/ Path("M1", PathB, Fn("h1"))
  \/ Default("M1", Fn("hDefault"))
  \/ \E request \in AmbientRequests : Fetch(request)

SpecAmbient == Init /\ [][NextAmbient]_vars

\* the keys #runRouter and #runHandler put into a bag
OwnKeys == {KeyRest, KeyRequest, KeyNext, KeySocket, KeyResponse, KeyError}

-----------------------------------------------------------------------------
(* C17, as claimed: the ambient values of the routers that outlive the     *)
(* requests stay as they were at construction (none), and the bag of a     *)
(* handler holds no capture that is not a segment of the request's path.   *)
C17_AmbientFixed ==
  /\ \A id \in RouterIds : routers[id].params = EmptyBag
  /\ last.done =>
       \A k \in Events :
         Log[k].ev = "invoke" =>
           \A key \in DOMAIN Log[k].params \ OwnKeys :
             \E i \in 1..Len(Log[1].parts) :
               Log[k].params[key] = StringVal(Log[1].parts[i])

-----------------------------------------------------------------------------
(* Invalid returns: the handler that returns 7 as a route of R0, as the    *)
(* default handler of a nested router, as a route of the mounted router    *)
(* M1 and as the error handler of R0.                                      *)

ViolationRequests ==
  {Request("GET", PathAB, ""), Request("POST", PathAB, "")}

NextViolation ==
  \/ \E h \in {Fn("hNumber"), Fn("hNestNumber"), Fn("hThrow")} :
       Get("R0", ArgString(PatAB), ArgHandler(h))
  \/ Path("R0", PatXStar, RouterHandler("M1"))
  \/ Path("M1", PathB, Fn("hNumber"))
  \/ \E h \in {Fn("hCatch"), Fn("hNumber")} : Catch("R0", h)
  \/ \E request \in ViolationRequests : Fetch(request)

SpecViolation == Init /\ [][NextViolation]_vars

-----------------------------------------------------------------------------
(* C18, as claimed: wherever the handler that returns 7 runs, no error     *)
(* handler is called for it and fetch fails with the Invalid handler       *)
(* return type error instead of resolving to a response.                   *)
C18_ViolationPropagates ==
  last.done =>
    \A k \in Events :
      (Log[k].ev = "invoke" /\ Log[k].handler = Fn("hNumber")) =>
        /\ \A j \in Events : j > k => ~IsInvoke(j, "error")
        /\ last.out.k = "throw"
        /\ last.out.err.message = <<"Invalid handler return type, ", "number">>

-----------------------------------------------------------------------------
(* Handlers that return nothing, on plain, socket and SSE routes, as       *)
(* default and as error handler; one pattern has a capture named response. *)

PatResponse == <<"/", ":">> \o KeyResponse

VoidRequests ==
  {Request("GET", PathA, ""), Request("GET", PathAB, ""),
   Request("GET", PathA, "websocket"), Request("POST", PathA, "")}

NextVoid ==
  \/ \E p \in {PatAB, PatResponse} :
       Get("R0", ArgString(p), ArgHandler(Fn("hVoid")))
  \/ Get("R0", ArgString(PatAB), ArgHandler(Fn("hThrow")))
  \/ \E p \in {PathA, PatResponse} :
       Socket("R0", ArgString(p), ArgHandler(Fn("hVoid")))
  \/ Sse("R0", ArgString(PathA), ArgHandler(Fn("hVoid")))
  \/ Default("R0", Fn("hVoid"))
  \/ Catch("R0", Fn("hVoid"))
  \/ \E request \in VoidRequests : Fetch(request)

SpecVoid == Init /\ [][NextVoid]_vars

-----------------------------------------------------------------------------
(* C19, as claimed: when the handler called last returns nothing, the      *)
(* result is the upgrade response on a socket route and an empty response  *)
(* with status 200 on every other route and for a default or error         *)
(* handler, whatever the names of the captures.                            *)
C19_VoidReturn ==
  (last.done /\ Len(Log) > 0) =>
    LET k == Len(Log)
    IN (Log[k].ev = "invoke" /\ Log[k].handler = Fn("hVoid")) =>
         IF Log[k].role = "route"
              /\ routers[Log[k].router].routes[Log[k].idx].protocol = "WS"
         THEN last.out = Resolved(UpgradeResponse)
         ELSE last.out = Resolved(Response(200, <<>>, {}))

-----------------------------------------------------------------------------
(* C21, as claimed: the generator is advanced only when the reader of the  *)
(* body asks for data: but for the one chunk a stream fetches ahead, the   *)
(* loop has called next() no more often than the reader has called read(). *)
C21_AdvancedOnDemand ==
  stream.made => stream.nexts <= stream.asked + 1

-----------------------------------------------------------------------------
(* Parameter bags: routes of R0 and of the nested router that a handler    *)
(* builds with ambient values under the keys x, y, _, request and next;    *)
(* the patterns have captures of these names.                              *)

PatReserved == <<"/", ":">> \o KeyRequest \o <<"/", ":">> \o KeyNext \o <<"/", ":", "_">>
PathAABB == <<"/", "a", "/", "a", "/", "b", "/", "b">>

BagRequests ==
  {Request("GET", p, "") : p \in {PathAB, PathABB, PathAABB}}
  \cup {Request("GET", PathAB, "websocket")}

NextBag ==
  \/ \E p \in {PatXStar, PatStar} :
       Get("R0", ArgString(p), ArgHandler(Fn("hNestAmbient")))
  \/ Get("R0", ArgString(PatReserved), ArgHandler(Fn("hGet")))
  \/ Socket("R0", ArgString(PatXStar), ArgHandler(Fn("hSocket")))
  \/ \E request \in BagRequests : Fetch(request)

SpecBag == Init /\ [][NextBag]_vars

\* the router of the event k of the log, as the fetch left it
RouterOf(k) ==
  IF Log[k].router \in RouterIds THEN routers[Log[k].router]
  ELSE last.nested[Log[k].router]

\* the entry whose handler was called at k
RouteOf(k) == RouterOf(k).routes[Log[k].idx]

\* the capture names of a pattern, and the last index of a name in it
CaptureNames(pattern) ==
  {Tail(pattern[i]) : i \in {j \in 1..Len(Body(pattern)) : IsCapture(pattern[j])}}
    \ {KeyProto}
LastIndexOf(pattern, name) ==
  CHOOSE i \in 1..Len(Body(pattern)) :
    /\ IsCapture(pattern[i]) /\ Tail(pattern[i]) = name
    /\ \A j \in (i + 1)..Len(Body(pattern)) :
         ~(IsCapture(pattern[j]) /\ Tail(pattern[j]) = name)

ReservedKeys == {KeyRest, KeyRequest, KeyNext}

-----------------------------------------------------------------------------
(* C22: the bag of a matched route's handler has the keys of the router's  *)
(* ambient values, of the captures, _ , request and next (and socket and   *)
(* response on a socket route); request is the request of the fetch, next  *)
(* the factory of the router, _ the segments the match left over; every    *)
(* other capture name is bound to its segment, and an ambient value shows  *)
(* only under a key that is none of these.                                 *)
C22_BagPrecedence ==
  last.done =>
    \A k \in Events :
      IsInvoke(k, "route") =>
        LET route == RouteOf(k)
            ambient == RouterOf(k).params
            parts == Log[DispatchOf(k)].parts
            pattern == IF route.pattern.t = "undefined" THEN <<Wildcard>>
                       ELSE PatternSegments(route)
            names == CaptureNames(pattern)
            upgrade == IF route.protocol = "WS" THEN {KeySocket, KeyResponse}
                       ELSE {}
            bag == Log[k].params
        IN /\ DOMAIN bag =
                DOMAIN ambient \cup names \cup ReservedKeys \cup upgrade
           /\ bag[KeyRequest] = RequestVal(last.req)
           /\ bag[KeyNext] = NextVal(Log[k].router)
           /\ bag[KeyRest] =
                ArrayVal(SubSeq(parts, Len(Body(pattern)) + 1, Len(parts)))
           /\ \A name \in names \ (ReservedKeys \cup upgrade) :
                bag[name] = StringVal(parts[LastIndexOf(pattern, name)])
           /\ \A key \in DOMAIN ambient \ (names \cup ReservedKeys \cup upgrade) :
                bag[key] = ambient[key]

\* in the nested router /:x binds x to the segment, not to the ambient "1",
\* y keeps its ambient value, _ and next are the router's own
C22_Witness ==
  /\ last.done
  /\ \E k \in Events :
       /\ IsInvoke(k, "route") /\ Log[k].router = "N1" /\ Log[k].idx = 1
       /\ RouterOf(k).params[KeyX] = StringVal(<<"1">>)
       /\ RouterOf(k).params[KeyRest] = StringVal(<<"1">>)
       /\ Log[k].params[KeyX] = StringVal(<<"b">>)
       /\ Log[k].params[KeyY] = StringVal(<<"1">>)
       /\ Log[k].params[KeyRest] = ArrayVal(<<>>)
       /\ Log[k].params[KeyNext] = NextVal("N1")

-----------------------------------------------------------------------------
(* The routers next returns: handlers of R0 that return next(extra) as it  *)
(* is, or with a route whose handler calls the next of that router.        *)

NextRequests ==
  {Request("GET", PathAB, ""), Request("GET", PathB, ""),
   Request("POST", PathAB, "")}

NextNext ==
  \/ \E p \in {PatXStar, PatStar} : \E h \in {Fn("hNextBare"), Fn("hNextTwice")} :
       Get("R0", ArgString(p), ArgHandler(h))
  \/ \E h \in {Fn("hNextBare"), Fn("hNextTwice")} : Default("R0", h)
  \/ \E request \in NextRequests : Fetch(request)

SpecNext == Init /\ [][NextNext]_vars

\* a handler that returns what next gave it was called at k
CallsNext(k) ==
  /\ Log[k].ev = "invoke"
  /\ Log[k].handler \in {Fn("hNextBare"), Fn("hNextTwice"), Fn("hNextInner")}

\* the router next made for the handler called at k
MadeAt(k) ==
  last.nested[IF Log[k].handler = Fn("hNextInner") THEN "N2" ELSE "N1"]

\* the ambient values of the router of k when its handler was called: none
\* for R0; for the nested router what the handler of R0 gave to next
AmbientAt(k) ==
  IF Log[k].router = "R0" THEN EmptyBag
  ELSE Spread(ExtraOf("hNextTwice"), Prop(KeyRequest, RequestVal(last.req)))

-----------------------------------------------------------------------------
(* C23, as claimed: the ambient values of the router next(extra) returns   *)
(* are those of the current router overlaid with extra, and nothing else.  *)
C23_AmbientIsOverlay ==
  last.done =>
    \A k \in Events :
      CallsNext(k) =>
        MadeAt(k).params = Spread(AmbientAt(k), ExtraOf(Log[k].handler.id))

(* C23, amended: the router next(extra) returns has no static entry, no    *)
(* default and no error handler, and no route but the ones the handler     *)
(* registers on it; its ambient values are those of the current router     *)
(* overlaid with extra, extra winning, and then with request, the request  *)
(* of the fetch, which wins over a request of extra; the ambient values of *)
(* the current router stay as they were.                                   *)
C23_NextRouter ==
  last.done =>
    \A k \in Events :
      CallsNext(k) =>
        LET made == MadeAt(k)
            extra == ExtraOf(Log[k].handler.id)
        IN /\ made.staticRoutes = <<>>
           /\ made.defaultHandler = NoHandler
           /\ made.errorHandler = NoHandler
           /\ made.routes =
                IF Log[k].handler = Fn("hNextTwice")
                THEN <<Route(Fn("hNextInner"), "HTTP", "",
                             PatternParts(<<Wildcard>>))>>
                ELSE <<>>
           /\ made.params =
                Spread(Spread(AmbientAt(k), extra),
                       Prop(KeyRequest, RequestVal(last.req)))
           /\ RouterOf(k).params = AmbientAt(k)

\* the nested router has x = "1" and y = "1"; the router its handler makes
\* with next({ x: "2" }) has x = "2" and y = "1", and the nested router
\* still has x = "1"
C23_Witness ==
  /\ last.done
  /\ \E k \in Events :
       /\ CallsNext(k) /\ Log[k].handler = Fn("hNextInner")
       /\ Log[k].router = "N1"
       /\ RouterOf(k).params[KeyX] = StringVal(<<"1">>)
       /\ MadeAt(k).params[KeyX] = StringVal(<<"2">>)
       /\ MadeAt(k).params[KeyY] = StringVal(<<"1">>)
       /\ MadeAt(k).routes = <<>>
  /\ last.out = Resolved(NotFound)

-----------------------------------------------------------------------------
(* Whose error handler: R0 has a failing route, a route that returns a     *)
(* nested router with a failing route, and M1 as a route; M1 has a failing *)
(* route and a failing default handler; R0, M1 and the nested router may   *)
(* have an error handler.                                                  *)

ScopeRequests ==
  {Request("GET", PathAB, ""), Request("GET", PathAA, ""),
   Request("POST", PathAB, "")}

NextScope ==
  \/ \E h \in {RouterHandler("M1"), Fn("hNestThrow"), Fn("hNestThrowCatch")} :
       Path("R0", PatXStar, h)
  \/ Get("R0", ArgString(PatAB), ArgHandler(Fn("hThrow")))
  \/ Catch("R0", Fn("hCatch"))
  \/ Path("M1", PathB, Fn("hThrow"))
  \/ Default("M1", Fn("hThrowStr"))
  \/ \E h \in {Fn("hCatch"), Fn("hCatchThrow")} : Catch("M1", h)
  \/ \E request \in ScopeRequests : Fetch(request)

SpecScope == Init /\ [][NextScope]_vars

-----------------------------------------------------------------------------
(* C24: an error handler is called only right after a route or default     *)
(* handler of its own router threw, and it is that router's error handler; *)
(* when the handler that threw belongs to a nested or mounted router, the  *)
(* error handler of R0 is not called, and when its router has no error     *)
(* handler, none is called and the result is the response with status 500. *)
C24_OwnErrorHandler ==
  last.done =>
    /\ \A j \in Events :
         IsInvoke(j, "error") =>
           /\ j > 1 /\ FailsAt(j - 1)
           /\ Log[j].router = Log[j - 1].router
           /\ Log[j].handler = RouterOf(j - 1).errorHandler
    /\ \A k \in Events :
         FailsAt(k) =>
           /\ Log[k].router # "R0" =>
                \A j \in Events : ~(IsInvoke(j, "error") /\ Log[j].router = "R0")
           /\ IF RouterOf(k).errorHandler = NoHandler
              THEN /\ \A j \in Events : ~IsInvoke(j, "error")
                   /\ last.out = Resolved(Response(500,
                        <<"Error", ": ", MessageOf(Log[k].handler)>>, {}))
              ELSE /\ k + 1 \in Events /\ IsInvoke(k + 1, "error")
                   /\ last.out.k = "response"

\* the route of the mounted router M1 throws; M1 has no error handler, R0
\* has one, and it is not called
C24_Witness ==
  /\ last.done
  /\ routers["R0"].errorHandler = Fn("hCatch")
  /\ routers["M1"].errorHandler = NoHandler
  /\ \E k \in Events :
       /\ FailsAt(k) /\ Log[k].router = "M1" /\ Log[k].role = "route"
  /\ \A j \in Events : ~IsInvoke(j, "error")
  /\ last.out = Resolved(Response(500, <<"Error", ": ", "boom">>, {}))

-----------------------------------------------------------------------------
(* Socket entries: socket routes of R0 among plain routes and a default    *)
(* handler; requests with no upgrade header, with the header of another    *)
(* protocol, and with the websocket one in two spellings.                  *)

SocketRequests ==
  {Request("GET", PathAB, u) : u \in {"", "h2c", "websocket", "WebSocket"}}
  \cup {Request("GET", PathB, "h2c"), Request("POST", PathAB, "websocket")}

NextSocket ==
  \/ \E p \in {PatAB, PatXStar} :
       Socket("R0", ArgString(p), ArgHandler(Fn("hSocket")))
  \/ Socket("R0", ArgHandler(Fn("hSocket")), ArgNone)
  \/ Get("R0", ArgString(PatAB), ArgHandler(Fn("hGet")))
  \/ Path("R0", PatXStar, Fn("hPath"))
  \/ Default("R0", Fn("hDefault"))
  \/ \E request \in SocketRequests : Fetch(request)

SpecSocket == Init /\ [][NextSocket]_vars

\* the socket entry i of R0 has the method and a pattern for the request,
\* which has no upgrade signature
SocketWithoutSignature(i) ==
  LET route == routers["R0"].routes[i]
  IN /\ route.protocol = "WS"
     /\ route.method = last.req.method
     /\ route.pattern.t = "undefined"
          \/ StructurallyMatches(PatternSegments(route), Log[1].parts)
     /\ ~HasUpgradeSignature(last.req)

-----------------------------------------------------------------------------
(* C25: a socket entry with the method and a pattern for a request that    *)
(* has no upgrade signature is passed over: no upgrade is made and its     *)
(* handler is not called; the first other entry that admits the request    *)
(* answers, else the default handler, else the response is 404.            *)
C25_SocketSkipped ==
  last.done =>
    LET table == routers["R0"].routes
        fallback == routers["R0"].defaultHandler
    IN \A i \in DOMAIN table :
         SocketWithoutSignature(i) =>
           LET others == {j \in DOMAIN table :
                            Admits(table[j], last.req, Log[1].parts)}
           IN /\ i \notin others
              /\ \A k \in Events :
                   /\ Log[k].ev # "upgrade"
                   /\ ~(IsInvoke(k, "route") /\ Log[k].idx = i)
              /\ IF others # {}
                 THEN LET first == CHOOSE j \in others : \A l \in others : j <= l
                      IN /\ \E k \in Events :
                              IsInvoke(k, "route") /\ Log[k].idx = first
                         /\ last.out = Resolved(PlainResponse(table[first].handler))
                 ELSE IF fallback # NoHandler
                 THEN /\ \E k \in Events : IsInvoke(k, "default")
                      /\ last.out = Resolved(PlainResponse(fallback))
                 ELSE last.out = Resolved(NotFound)

\* a socket entry on /a/b comes first; the request asks for another
\* protocol, and the get entry after it answers
C25_Witness ==
  /\ last.done
  /\ last.req = Request("GET", PathAB, "h2c")
  /\ Len(routers["R0"].routes) = 2
  /\ SocketWithoutSignature(1)
  /\ routers["R0"].routes[2].handler = Fn("hGet")
  /\ \E k \in Events : IsInvoke(k, "route") /\ Log[k].idx = 2
  /\ last.out = Resolved(PlainResponse(Fn("hGet")))

-----------------------------------------------------------------------------
(* A match is final: the first route of R0 returns a nested router or is   *)
(* the router M1, and routes that admit every request and a default        *)
(* handler come after it.                                                  *)

FinalRequests ==
  {Request("GET", p, "") : p \in {PathAB, PathAA, PathABB}}
  \cup {Request("POST", PathAA, "")}

NextFinal ==
  \/ \E h \in {Fn("hNest"), RouterHandler("M1")} : Path("R0", PatXStar, h)
  \/ Get("R0", ArgString(PatAStar), ArgHandler(Fn("hGet")))
  \/ Path("R0", PatStar, Fn("hPath"))
  \/ Default("R0", Fn("hDefault"))
  \/ Path("M1", PathB, Fn("h1"))
  \/ Default("M1", Fn("h2"))
  \/ \E request \in FinalRequests : Fetch(request)

SpecFinal == Init /\ [][NextFinal]_vars

\* the handler of a route of R0 was called at k, and it returns a router
\* or is one, which is dispatched next
DelegatesAt(k) ==
  /\ IsInvoke(k, "route") /\ Log[k].router = "R0"
  /\ Log[k].handler \in {Fn("hNest"), RouterHandler("M1")}
  /\ k + 1 \in Events /\ IsDispatch(k + 1)

\* no route of the router dispatched at d admits the request
NothingMatches(d) ==
  \A i \in DOMAIN RouterOf(d).routes :
    ~Admits(RouterOf(d).routes[i], last.req, Log[d].parts)

-----------------------------------------------------------------------------
(* C26: after the handler of a route of a router is called, nothing of     *)
(* that router is called any more in the fetch; when the handler returns   *)
(* or is a router in which no route admits the request, the result is the  *)
(* response of that router's default handler, or 404 when it has none.     *)
C26_MatchIsFinal ==
  last.done =>
    \A k \in Events :
      IsInvoke(k, "route") =>
        /\ \A j \in Events :
             (j > k /\ Log[j].router = Log[k].router) => Log[j].ev = "upgrade"
        /\ (DelegatesAt(k) /\ NothingMatches(k + 1)) =>
             LET fallback == RouterOf(k + 1).defaultHandler
             IN IF fallback # NoHandler
                THEN /\ IsInvoke(Len(Log), "default")
                     /\ Log[Len(Log)].router = Log[k + 1].router
                     /\ last.out = Resolved(PlainResponse(fallback))
                ELSE /\ Len(Log) = k + 1
                     /\ last.out = Resolved(NotFound)

\* the nested router of the first route has nothing for /a/a: the response
\* is 404 although the second route and the default handler of R0 admit
\* the request
C26_Witness ==
  /\ last.done
  /\ last.req = Request("GET", PathAA, "")
  /\ Len(routers["R0"].routes) = 2
  /\ DelegatesAt(2) /\ Log[2].handler = Fn("hNest") /\ NothingMatches(3)
  /\ Admits(routers["R0"].routes[2], last.req, Log[1].parts)
  /\ routers["R0"].defaultHandler = Fn("hDefault")
  /\ last.out = Resolved(NotFound)

-----------------------------------------------------------------------------
\* the segments with a slash between one and the next
RECURSIVE Slashed(_)
Slashed(segments) ==
  IF Len(segments) = 0 THEN <<>>
  ELSE IF Len(segments) = 1 THEN segments[1]
  ELSE Slashed(SubSeq(segments, 1, Len(segments) - 1))
         \o <<"/">> \o segments[Len(segments)]

(* C27: a static callback is called only for a GET or HEAD request whose   *)
(* segments the entry's pattern matches with at least one segment left     *)
(* over, and the file it is called with is the segments left over with a   *)
(* slash between them.                                                     *)
C27_StaticCallbackGuard ==
  last.done =>
    \A k \in Events :
      IsInvoke(k, "static") =>
        LET entry == routers[Log[k].router].staticRoutes[Log[k].idx]
            parts == Log[DispatchOf(k)].parts
            rest == SubSeq(parts, Len(Body(entry.pattern)) + 1, Len(parts))
        IN /\ last.req.method \in {"GET", "HEAD"}
           /\ StructurallyMatches(entry.pattern, parts)
           /\ Len(rest) > 0
           /\ Log[k].parts = <<Slashed(rest)>>

\* /a/* on /a/b/b: the callback is called with b/b
C27_Witness ==
  /\ last.done
  /\ last.req = Request("GET", PathABB, "")
  /\ \E k \in Events :
       /\ IsInvoke(k, "static")
       /\ routers["R0"].staticRoutes[Log[k].idx].pattern = <<<<"a">>, Wildcard>>
       /\ Log[k].parts = <<<<"b", "/", "b">>>>

-----------------------------------------------------------------------------
(* The route table: registration calls of every form, one of which throws, *)
(* on R0 and on M1, which is a handler of R0, and dispatches.              *)

TablePatterns == {PatAB, PatXStar}
TableHandlers == {Fn("hGet"), RouterHandler("M1")}

TableRequests ==
  {Request("GET", PathAB, ""), Request("GET", PathAB, "websocket"),
   Request("POST", PathAB, ""), Request("GET", PathB, "")}

NextTable ==
  \/ \E p \in TablePatterns : \E h \in TableHandlers :
       Get("R0", ArgString(p), ArgHandler(h))
  \/ Get("R0", ArgHandler(Fn("hGet")), ArgHandler(Fn("hPost")))
  \/ Get("R0", ArgString(PatAB), ArgNone)
  \/ Socket("R0", ArgString(PatAB), ArgHandler(Fn("hSocket")))
  \/ Path("R0", PatXStar, Fn("hPath"))
  \/ Path("M1", PathB, Fn("h1"))
  \/ \E request \in TableRequests : Fetch(request)

SpecTable == Init /\ [][NextTable]_vars

\* an entry before and after a dispatch: the same, but for a string pattern
\* that became its segments
EntryKept(old, new) ==
  /\ new.handler = old.handler
  /\ new.protocol = old.protocol
  /\ new.method = old.method
  /\ \/ new.pattern = old.pattern
     \/ /\ old.pattern.t = "string"
        /\ new.pattern = PatternParts(toParts(old.pattern.s).parts)

\* the step adds the entry at the end of the route table of R0
Appends(entry) ==
  routers'["R0"].routes = Append(routers["R0"].routes, entry)

\* the route handlers a fetch called, with their entries and bags
Selected(log) ==
  SelectSeq(log, LAMBDA event : event.ev = "invoke" /\ event.role = "route")

-----------------------------------------------------------------------------
(* C28: a registration call that succeeds adds its entry (handler,         *)
(* protocol, method, pattern) at the end of the route table and one that   *)
(* throws adds none; no call removes or moves an entry; a dispatch keeps   *)
(* the entries but for string patterns that become their segments; and the *)
(* same request dispatched again calls the same entries with the same      *)
(* bags.                                                                   *)
C28_TableIntegrity ==
  [][/\ \A rid \in RouterIds :
         LET old == routers[rid].routes
             new == routers'[rid].routes
         IN IF last'.done
            THEN /\ Len(new) = Len(old)
                 /\ \A i \in DOMAIN old : EntryKept(old[i], new[i])
            ELSE \/ new = old
                 \/ /\ Len(new) = Len(old) + 1
                    /\ SubSeq(new, 1, Len(old)) = old
     /\ \A p \in TablePatterns : \A h \in TableHandlers :
         Get("R0", ArgString(p), ArgHandler(h)) =>
           Appends(Route(h, "HTTP", "GET", PatternString(p)))
     /\ Get("R0", ArgHandler(Fn("hGet")), ArgHandler(Fn("hPost"))) =>
         Appends(Route(Fn("hGet"), "HTTP", "GET", PatternUndefined))
     /\ Get("R0", ArgString(PatAB), ArgNone) => UNCHANGED routers
     /\ Socket("R0", ArgString(PatAB), ArgHandler(Fn("hSocket"))) =>
         Appends(Route(Fn("hSocket"), "WS", "GET", PatternString(PatAB)))
     /\ Path("R0", PatXStar, Fn("hPath")) =>
         Appends(Route(Fn("hPath"), "HTTP", "", PatternString(PatXStar)))
     /\ last'.done =>
         LET again == fetch(routers', "R0", last'.req)
         IN /\ Selected(again.log) = Selected(last'.log)
            /\ again.out = last'.out
            /\ \A rid \in RouterIds : again.st[rid].routes = routers'[rid].routes
    ]_vars

\* the first entry answered and has its pattern as segments; the second
\* was not reached and has its pattern as the string it was registered with
C28_Witness ==
  /\ last.done
  /\ Len(routers["R0"].routes) = 2
  /\ routers["R0"].routes[1].pattern = PatternParts(<<<<"a">>, <<"b">>>>)
  /\ routers["R0"].routes[1].handler = Fn("hGet")
  /\ routers["R0"].routes[2].pattern = PatternString(PatXStar)
  /\ Len(Selected(Log)) = 1 /\ Selected(Log)[1].idx = 1
  /\ last.out = Resolved(PlainResponse(Fn("hGet")))

-----------------------------------------------------------------------------
\* the dispatches of the last fetch, in the order of the log: each one is
\* made for the handler called just before it
Dispatches == {d \in Events : IsDispatch(d)}

IsSuffix(short, long) ==
  /\ Len(short) <= Len(long)
  /\ short = SubSeq(long, Len(long) - Len(short) + 1, Len(long))

(* C29: a router that is dispatched for a handler of another router gets   *)
(* segments that are the last ones of the segments of that router, and of  *)
(* every router before it in the chain; they are fewer when the handler    *)
(* belongs to a route whose pattern has a segment before its wildcard or   *)
(* end.                                                                    *)
C29_SuffixChain ==
  last.done =>
    \A d \in Dispatches :
      /\ \A a \in Dispatches :
           a < d => IsSuffix(Log[d].parts, Log[a].parts)
      /\ d > 1 =>
           LET k == d - 1
               parent == Log[DispatchOf(k)].parts
           IN /\ Log[k].ev = "invoke"
              /\ (Log[k].role = "route"
                    /\ RouteOf(k).pattern.t # "undefined"
                    /\ Len(Body(PatternSegments(RouteOf(k)))) > 0)
                   => Len(Log[d].parts) < Len(parent)

\* /a/b goes from R0 through /:x/* to the nested router with b, and from
\* there through /* to M1, with b again
C29_Witness ==
  /\ last.done
  /\ Dispatches = {1, 3, 5}
  /\ Log[1].parts = <<<<"a">>, <<"b">>>>
  /\ Log[3].router = "N1" /\ Log[3].parts = <<<<"b">>>>
  /\ Log[5].router = "M1" /\ Log[5].parts = <<<<"b">>>>
  /\ last.out = Resolved(PlainResponse(Fn("h1")))

-----------------------------------------------------------------------------
(* The stream with its steps taken in time: the generator and the loop go  *)
(* on whenever they can, and the reader keeps reading; the reader need not *)
(* cancel.                                                                 *)
SpecStreamLive ==
  /\ SpecStream
  /\ WF_vars(GeneratorYields) /\ WF_vars(GeneratorEnds)
  /\ WF_vars(Enqueue) /\ WF_vars(Close) /\ WF_vars(Read)

\* the chunks 1, 2, ... n in the order the generator yields them
Yielded(n) == [i \in 1..n |-> i]

(* C30, as claimed: for a byte stream and for an event stream, what the    *)
(* reader has received and what waits in the queue are the chunks in the   *)
(* order the generator yielded them, and once the generator has come to    *)
(* its end and the reader has not cancelled, the stream is closed in the   *)
(* end.                                                                    *)
C30_OrderedThenClosed ==
  /\ [](stream.made =>
         stream.received \o stream.queue =
           Yielded(Len(stream.received) + Len(stream.queue)))
  /\ (stream.made /\ stream.gen = "completed" /\ stream.cancelled = "no")
       ~> (stream.state = "closed" \/ stream.cancelled # "no")

====
